---- MODULE Spec2Model ----
(***************************************************************************)
(* A model of the Telegram feedback bot: the enrollment handlers of        *)
(* curator_flow/recipients_handlers.py, the /send_now flow and broadcast   *)
(* of curator_flow/send_survey_handlers.py, the answer handlers of         *)
(* student_flow/survey_handlers.py, the commands /start, /help and         *)
(* /feedback (up to the anonymity choice) that interrupt them, the         *)
(* /set_questions flow of curator_flow/question_handlers.py, the entry of  *)
(* the curator flows and /delete_course of admin_flow/course_handlers.py.  *)
(*                                                                         *)
(* Storage is the committed content of the tables.  The FSM storage is the *)
(* dispatcher's MemoryStorage: a state and a data dictionary per chat.     *)
(* A handler that awaits storage or transport between its reads and its    *)
(* writes is a chain of steps, so that handlers of different actors, and   *)
(* of the same actor, interleave at those calls.                           *)
(*                                                                         *)
(* SpecEnroll      one operator, enrollment operations one after another   *)
(* SpecEnrollConc  two operators, enrollment handlers interleaved          *)
(* SpecBroadcast   the /send_now flow and the broadcast                    *)
(* SpecSurvey      deliveries to a student who answers and issues commands *)
(* SpecBroadcastLive  SpecBroadcast with the broadcast task resumed        *)
(* SpecAnswer      one delivery; answers, /skip, a username that changes   *)
(*                 its account                                             *)
(* SpecHappy       one broadcast, every send delivered, every question     *)
(*                 answered once; tasks and students are fair              *)
(* SpecReach       enrollment, /start and broadcasts from an empty store   *)
(* SpecAuthor      one operator's /set_questions runs, one update at a     *)
(*                 time; the save is a transaction at READ COMMITTED       *)
(* SpecAuthorConc  two operators' /set_questions runs interleaved          *)
(* SpecAuthorRace  one operator whose updates are handled while an earlier *)
(*                 handler awaits                                          *)
(* SpecEntry       the commands that enter a flow, over an active flow     *)
(* SpecEnrollFail  SpecEnroll with a /set_recipients whose storage fails   *)
(* SpecFrame       answers, a question replacement and /delete_course      *)
(* SpecSendFail    SpecHappy's events with sends that may raise            *)
(* SpecSelf        a broadcast sent by a curator who is a recipient        *)
(* SpecDouble      SpecHappy's events with an answer pressed twice         *)
(* SpecOwn         two students answering, one of them in /feedback        *)
(* SpecKinds       answers by button, by text and by /skip                 *)
(* SpecReplace     an answer handled while /set_questions replaces the     *)
(*                 questions                                               *)
(* SpecGuard       curator commands behind curator_guard, from curators    *)
(*                 and from others                                         *)
(* SpecStale       SpecEnroll's flows with the student keyboards of        *)
(*                 earlier /delete_recipient runs still pressed            *)
(*                                                                         *)
(* handle_survey_anonymity_selection is not part of the model: no code     *)
(* sets SurveyResponseStates.selecting_anonymity, so its filter never      *)
(* matches.                                                                *)
(***************************************************************************)
EXTENDS Integers, Sequences, FiniteSets, TLC

None == "None"

\* ------------------------------------------------------------------------
\* The universe of rows and actors
\* ------------------------------------------------------------------------
\* Course and Group rows (admin_flow / group_handlers create them; they are
\* fixed here).  Group.course_id is CourseOf.
Courses == {"cA", "cB"}
Groups == {"gA1", "gA2", "gB1"}
CourseOf(g) == IF g = "gB1" THEN "cB" ELSE "cA"
GroupsOfCourse(c) == {g \in Groups : CourseOf(g) = c}

\* Student.tg_username values as stored: lower case, no leading '@'.
Handles == {"alice", "bob"}

\* Curators who drive the enrollment flows and the broadcast.
Operators == {"op1", "op2"}

\* Every chat with FSM storage: the operators and the students' accounts.
Actors == Operators \cup Handles

\* The Telegram user id of the account behind each username.  Telegram ids
\* are positive; NullId stands for a tg_user_id column that is NULL.
NullId == 0
TgId(s) == IF s = "alice" THEN 101 ELSE 102

\* The survey of group gA1 and its Question rows, order 1..NQuestions (a
\* question's id is its order); Question.q_type by order.
SurveyId == "s1"
SurveyGroup == "gA1"
\* A second survey of the same group, for which no question was set
EmptySurveyId == "s0"
Surveys == {SurveyId, EmptySurveyId}
NQuestions == 3
QType(n) == IF n = 2 THEN "text" ELSE "scale"
QuestionCount(sv) == IF sv = SurveyId THEN NQuestions ELSE 0

\* What save_response stores for an anonymous answer ("Аноним", 0).
AnonName == "Anonim"
AnonId == 0

\* One entry of the comma separated username message, after split and
\* strip: `ats` leading '@' characters followed by `name`.
RawEntries ==
    { [ats |-> 1, name |-> "alice"], [ats |-> 1, name |-> "Alice"],
      [ats |-> 1, name |-> "bob"],   [ats |-> 0, name |-> "bob"],
      [ats |-> 1, name |-> ""] }

\* len() of the name part: every non-empty name above has at least 3 characters
NameLen(n) == IF n = "" THEN 0 ELSE 3

\* str.lower() on the names of RawEntries
Lower(n) == IF n = "Alice" THEN "alice" ELSE n

\* A test that every entry passes.
AnyEntry(u) == TRUE

\* u.startswith('@') and len(u) > 1
ValidEntry(u) == u.ats >= 1 /\ u.ats + NameLen(u.name) > 1

\* u.lower().lstrip('@')
NormalizeEntry(u) == Lower(u.name)

\* valid_usernames_input / invalid_inputs of one message
ValidUsernames(text) == {NormalizeEntry(u) : u \in {v \in text : ValidEntry(v)}}
InvalidInputs(text) == {u \in text : ~ValidEntry(u)}

VARIABLES
    studentRows,   \* Student rows, by tg_username
    tgUserId,      \* Student.tg_user_id of each row (None: never started the bot)
    links,         \* GroupStudent rows: how many rows each (group, student) has
    fsm,           \* FSM state of each actor (None: no state)
    bag,           \* FSM data of each actor
    openKb,        \* group keyboards still displayed in an operator's chat
    studentKb,     \* student buttons of the delete keyboard displayed to an operator
    rec,           \* the enrollment handler each operator has in flight
    last,          \* what the last finished handler of an actor's command or flow reported
    prevSet,       \* the last committed set_recipients, while no other enrollment change followed
    responses,     \* Response rows in commit order
    hnd,           \* the answer handlers each student has in flight
    bc,            \* the broadcast in flight
    sent,          \* history: the question messages delivered, by actor, delivery and order
    sess,          \* history: how many surveys were delivered to each student
    completed,     \* history: the deliveries whose completion notice was sent and state cleared
    cancelled,     \* history: a top-level command was handled in Answering, no survey delivered since
    questionRows,  \* Question rows of each survey, in insertion order
    fin,           \* the handlers of each operator that wait for an awaited call
    courseRows     \* Course rows (with their Group rows)

enrollVars == <<studentRows, tgUserId, links, fsm, bag, openKb, studentKb, rec, last, prevSet>>
surveyVars == <<responses, hnd, bc, sent, sess, completed, cancelled>>
authorVars == <<questionRows, fin, courseRows>>
vars == <<studentRows, tgUserId, links, fsm, bag, openKb, studentKb, rec, last, prevSet,
          responses, hnd, bc, sent, sess, completed, cancelled, questionRows, fin, courseRows>>

\* The keys of the FSM data used here; None or 0: the key is absent.
EmptyBag == [course_id |-> None, group_id |-> None, survey_id |-> None,
             current_question_id |-> 0, question_order |-> 0, is_anonymous |-> None,
             session_id |-> None, questions |-> <<>>, current_question_type |-> None,
             question_type |-> None]
NoReport == [kind |-> "none"]
NoPrev == [group |-> None, input |-> {}]

\* The locals of an enrollment handler between two of its storage calls.
Idle == [pc |-> "idle", kind |-> None, group |-> None, course |-> None, input |-> {},
         conflict |-> {}, current |-> {}, existing |-> {}, create |-> {}]

Enrolled(g) == {s \in Handles : links[<<g, s>>] > 0}

\* An answer handler between two awaited calls (NoRow: the SELECT of the
\* next question found none); the broadcast between two sends.
NoRow == [order |-> 0, q_type |-> None, tx |-> 0]
NoHandler == [pc |-> "none", q |-> 0, anon |-> FALSE, sid |-> None, dlv |-> 0,
              late |-> FALSE, next |-> 0, answer |-> None, qt |-> None, row |-> NoRow]
MaxInFlight == 2
NoBroadcast == [pc |-> "idle", op |-> None, students |-> <<>>, todo |-> <<>>,
                ok |-> 0, log |-> <<>>, count |-> 0]

\* A handler of an operator between two awaited calls: the prompt for the
\* next question; save_questions_and_finish with the survey and list it
\* read and the rows its DELETE statement saw; the entry of a flow and the
\* state in which it found the operator.
NoFinalize == [pc |-> "idle", survey |-> None, list |-> <<>>, seen |-> {},
               flow |-> None, was |-> None]

\* The Question rows at the start: those of the survey that is delivered
\* (`tx` tells the rows of one save from those of another, as their ids do).
InitialQuestions ==
    [sv \in Surveys |->
        [i \in 1..QuestionCount(sv) |-> [order |-> i, q_type |-> QType(i), tx |-> 0]]]

\* Question.id: a serial number; the rows of a later save have larger ids
\* than those of an earlier one, and the rows of the start have their
\* order as id.
IdStride == 10
QuestionId(row) == row.tx * IdStride + row.order

\* session.get(Question, question_id) of a question of the survey
QuestionStored(id) ==
    \E i \in 1..Len(questionRows[SurveyId]) : QuestionId(questionRows[SurveyId][i]) = id

\* question.q_type of the row with this id (None: no such row)
StoredType(id) ==
    LET rows == SelectSeq(questionRows[SurveyId], LAMBDA r : QuestionId(r) = id)
    IN  IF rows = <<>> THEN None ELSE rows[1].q_type

\* select(Question).where(survey_id, order == next_order): the rows the
\* statement finds; .first() is one of them, or None (NoRow)
RowsOfOrder(n) ==
    LET rows == {questionRows[SurveyId][i] : i \in 1..Len(questionRows[SurveyId])}
    IN  IF \E r \in rows : r.order = n THEN {r \in rows : r.order = n} ELSE {NoRow}

\* Nothing of the survey side has happened.
InitSurveyIdle ==
    /\ questionRows = InitialQuestions
    /\ fin = [op \in Operators |-> [h \in 1..MaxInFlight |-> NoFinalize]]
    /\ courseRows = Courses
    /\ responses = <<>>
    /\ hnd = [s \in Handles |-> [h \in 1..MaxInFlight |-> NoHandler]]
    /\ bc = NoBroadcast
    /\ sent = {}
    /\ sess = [s \in Handles |-> 0]
    /\ completed = {}
    /\ cancelled = [s \in Handles |-> FALSE]

\* A clear of the state of every chat.
ClearEveryState(f, a) == [x \in DOMAIN f |-> None]

\* state.clear(): no state, no data
ClearState(f, a) == [f EXCEPT ![a] = None]
ClearBag(b, a) == [b EXCEPT ![a] = EmptyBag]

\* ------------------------------------------------------------------------
\* Flow entry and selection steps (recipients_handlers.py)
\* ------------------------------------------------------------------------
\* /set_recipients ("sr"), /add_recipient ("ar"), /delete_recipient ("dr"):
\* cancel the previous flow if there is one, show the course keyboard.
\* `shown`: the student buttons of earlier delete flows that the operator
\* may still press.
FlowEntered(op, flow, shown) ==
    /\ rec[op].pc = "idle"
    /\ fsm' = [fsm EXCEPT ![op] = flow \o ":selecting_course"]
    /\ bag' = IF fsm[op] # None THEN ClearBag(bag, op) ELSE bag
    /\ last' = [last EXCEPT ![op] = NoReport]
    /\ studentKb' = [studentKb EXCEPT ![op] = shown]
    /\ UNCHANGED <<studentRows, tgUserId, links, openKb, rec, prevSet, surveyVars>>
    /\ UNCHANGED authorVars

\* The operator uses the keyboards of the running flow only.
FlowStart(op, flow) == FlowEntered(op, flow, {})

\* The messages of a flow that was left keep their buttons.
FlowStartShown(op, flow) == FlowEntered(op, flow, studentKb[op])

\* A course button: the message becomes the group keyboard of that course.
CourseSelected(op, flow, c) ==
    /\ rec[op].pc = "idle"
    /\ fsm[op] = flow \o ":selecting_course"
    /\ GroupsOfCourse(c) # {}
    /\ bag' = [bag EXCEPT ![op].course_id = c]
    /\ fsm' = [fsm EXCEPT ![op] = flow \o ":selecting_group"]
    /\ openKb' = IF flow = "dr" THEN openKb
                 ELSE [openKb EXCEPT ![op] = @ \cup {<<flow, c>>}]
    /\ UNCHANGED <<studentRows, tgUserId, links, studentKb, rec, last, prevSet, surveyVars>>
    /\ UNCHANGED authorVars

\* A group button of any group keyboard of this flow that is still displayed
\* (the current one, or one left behind by a flow that was restarted): the
\* handler checks the state and that the group exists, nothing else.  The
\* pressed message is edited and loses its keyboard.
GroupSelected(op, flow, g) ==
    /\ flow \in {"sr", "ar"}
    /\ rec[op].pc = "idle"
    /\ fsm[op] = flow \o ":selecting_group"
    /\ <<flow, CourseOf(g)>> \in openKb[op]
    /\ bag' = [bag EXCEPT ![op].group_id = g]
    /\ fsm' = [fsm EXCEPT ![op] =
                 IF flow = "sr" THEN "sr:entering_usernames" ELSE "ar:entering_username"]
    /\ openKb' = [openKb EXCEPT ![op] = @ \ {<<flow, CourseOf(g)>>}]
    /\ UNCHANGED <<studentRows, tgUserId, links, studentKb, rec, last, prevSet, surveyVars>>
    /\ UNCHANGED authorVars

\* The group button of the delete flow: an empty group ends the flow, any
\* other shows one button per enrolled student, each with the id of the
\* group and of the student as callback data.  `shown`: the buttons of
\* earlier delete flows that the operator may still press.
DeleteGroupChosen(op, g, shown) ==
    /\ rec[op].pc = "idle"
    /\ fsm[op] = "dr:selecting_group"
    /\ CourseOf(g) = bag[op].course_id
    /\ IF Enrolled(g) = {}
       THEN /\ fsm' = ClearState(fsm, op)
            /\ bag' = ClearBag(bag, op)
            /\ studentKb' = [studentKb EXCEPT ![op] = shown]
       ELSE /\ bag' = [bag EXCEPT ![op].group_id = g]
            /\ fsm' = [fsm EXCEPT ![op] = "dr:selecting_student"]
            /\ studentKb' = [studentKb EXCEPT ![op] =
                                shown \cup {<<g, s>> : s \in Enrolled(g)}]
    /\ UNCHANGED <<studentRows, tgUserId, links, openKb, rec, last, prevSet, surveyVars>>
    /\ UNCHANGED authorVars

\* The operator uses the keyboards of the running flow only.
DeleteGroupSelected(op, g) == DeleteGroupChosen(op, g, {})

\* The messages of a flow that was left keep their buttons.
DeleteGroupSelectedShown(op, g) == DeleteGroupChosen(op, g, studentKb[op])

\* A student button: one DELETE of the rows of (group, student) of the
\* callback data, committed; the message names the group of the state data.
DeleteStudentSelected(op, g, s) ==
    /\ rec[op].pc = "idle"
    /\ fsm[op] = "dr:selecting_student"
    /\ <<g, s>> \in studentKb[op]
    /\ links' = [links EXCEPT ![<<g, s>>] = 0]
    /\ last' = [last EXCEPT ![op] =
                  [kind |-> "del", group |-> bag[op].group_id, student |-> s,
                   removed |-> links[<<g, s>>] > 0]]
    /\ prevSet' = IF links[<<g, s>>] > 0 THEN NoPrev ELSE prevSet
    /\ fsm' = ClearState(fsm, op)
    /\ bag' = ClearBag(bag, op)
    /\ studentKb' = [studentKb EXCEPT ![op] = {}]
    /\ UNCHANGED <<studentRows, tgUserId, openKb, rec, surveyVars>>
    /\ UNCHANGED authorVars

\* ------------------------------------------------------------------------
\* set_recipients_usernames_entered (recipients_handlers.py 120-313)
\* ------------------------------------------------------------------------
\* The locals once the message is parsed and the storage session opens.
SR_Task(op, text) ==
    [Idle EXCEPT !.pc = "precheck", !.kind = "sr",
                 !.group = bag[op].group_id, !.course = bag[op].course_id,
                 !.input = ValidUsernames(text)]

\* students_in_conflict: the candidates that exist and have a row in a group
\* of the target course other than the target group.
StudentsInConflict(input, course, group) ==
    {s \in input \cap studentRows :
        \E g \in Groups : g # group /\ CourseOf(g) = course /\ links[<<g, s>>] > 0}

\* The pre-check: the two SELECTs that find the conflicting candidates.
SR_PreChecked(r) ==
    [r EXCEPT !.pc = "resolve",
              !.conflict = StudentsInConflict(r.input, r.course, r.group)]

\* usernames_to_process
UsernamesToProcess(r) == r.input \ r.conflict

\* 1. current_student_ids; 2. the existing Student rows of the candidates
\* and the rows to create
SR_Resolved(r) ==
    [r EXCEPT !.pc = "commit",
              !.current = Enrolled(r.group),
              !.existing = UsernamesToProcess(r) \cap studentRows,
              !.create = UsernamesToProcess(r) \ studentRows]

\* A difference that removes nobody.
NoRemovals(r) == {}

\* A difference that adds every student of the message, enrolled or not.
AddEveryId(r) == r.existing \cup r.create

\* 3. the differences
NewStudentIds(r) == r.existing \cup r.create
IdsToAdd(r) == NewStudentIds(r) \ r.current
IdsToRemove(r) == r.current \ NewStudentIds(r)
IdsToKeep(r) == r.current \cap NewStudentIds(r)

\* 5. DELETE the removed rows of the group, INSERT one row per added student
ApplyDiff(l, group, toRemove, toAdd) ==
    [p \in DOMAIN l |->
        IF p[1] = group /\ p[2] \in toRemove THEN 0
        ELSE IF p[1] = group /\ p[2] \in toAdd THEN l[p] + 1
        ELSE l[p]]

\* The summary message of a committed reconciliation.
SetReport(r, repeat) ==
    [kind |-> "set", group |-> r.group, course |-> r.course, input |-> r.input,
     ignored |-> r.conflict, current |-> r.current, requested |-> NewStudentIds(r),
     created |-> r.create, added |-> IdsToAdd(r) \ r.create,
     to_add |-> IdsToAdd(r), to_remove |-> IdsToRemove(r), to_keep |-> IdsToKeep(r),
     repeat |-> repeat]

\* Commit, report, state.clear().  Student.tg_username is unique: when
\* another session committed one of the usernames this one inserts, the
\* unit fails and is rolled back.
SR_Finish(op, r) ==
    /\ IF r.create \cap studentRows # {}
       THEN /\ last' = [last EXCEPT ![op] = [kind |-> "error"]]
            /\ UNCHANGED <<studentRows, links, prevSet>>
       ELSE /\ studentRows' = studentRows \cup r.create
            /\ links' = ApplyDiff(links, r.group, IdsToRemove(r), IdsToAdd(r))
            /\ last' = [last EXCEPT ![op] =
                          SetReport(r, prevSet = [group |-> r.group, input |-> r.input])]
            /\ prevSet' = [group |-> r.group, input |-> r.input]
    /\ rec' = [rec EXCEPT ![op] = Idle]
    /\ fsm' = ClearState(fsm, op)
    /\ bag' = ClearBag(bag, op)
    /\ UNCHANGED <<tgUserId, openKb, studentKb, surveyVars>>
    /\ UNCHANGED authorVars

\* The whole handler, run to completion.  A malformed entry is reported and
\* the state kept.
SetRecipients(op, text) ==
    /\ rec[op].pc = "idle"
    /\ fsm[op] = "sr:entering_usernames"
    /\ IF InvalidInputs(text) # {}
       THEN /\ last' = [last EXCEPT ![op] = [kind |-> "invalid"]]
            /\ UNCHANGED <<studentRows, tgUserId, links, fsm, bag, openKb, studentKb,
                           rec, prevSet, surveyVars>>
       ELSE SR_Finish(op, SR_Resolved(SR_PreChecked(SR_Task(op, text))))
    /\ UNCHANGED authorVars

\* The same handler, one step per group of storage calls.
SR_Begin(op, text) ==
    /\ rec[op].pc = "idle"
    /\ fsm[op] = "sr:entering_usernames"
    /\ IF InvalidInputs(text) # {}
       THEN /\ last' = [last EXCEPT ![op] = [kind |-> "invalid"]]
            /\ UNCHANGED rec
       ELSE /\ rec' = [rec EXCEPT ![op] = SR_Task(op, text)]
            /\ last' = [last EXCEPT ![op] = NoReport]
    /\ UNCHANGED <<studentRows, tgUserId, links, fsm, bag, openKb, studentKb, prevSet, surveyVars>>
    /\ UNCHANGED authorVars

SR_PreCheck(op) ==
    /\ rec[op].kind = "sr"
    /\ rec[op].pc = "precheck"
    /\ rec' = [rec EXCEPT ![op] = SR_PreChecked(rec[op])]
    /\ UNCHANGED <<studentRows, tgUserId, links, fsm, bag, openKb, studentKb, last, prevSet, surveyVars>>
    /\ UNCHANGED authorVars

SR_Resolve(op) ==
    /\ rec[op].kind = "sr"
    /\ rec[op].pc = "resolve"
    /\ rec' = [rec EXCEPT ![op] = SR_Resolved(rec[op])]
    /\ UNCHANGED <<studentRows, tgUserId, links, fsm, bag, openKb, studentKb, last, prevSet, surveyVars>>
    /\ UNCHANGED authorVars

SR_Commit(op) ==
    /\ rec[op].kind = "sr"
    /\ rec[op].pc = "commit"
    /\ SR_Finish(op, rec[op])

\* ------------------------------------------------------------------------
\* add_recipient_username_entered (recipients_handlers.py 615-700)
\* ------------------------------------------------------------------------
AR_Task(op, u) ==
    [Idle EXCEPT !.pc = "check", !.kind = "ar",
                 !.group = bag[op].group_id, !.course = bag[op].course_id,
                 !.input = {NormalizeEntry(u)}]

\* The SELECTs: the Student row, its link to this group, its link to
\* another group of this course.
AR_Checked(r) ==
    [r EXCEPT !.pc = "commit",
              !.existing = r.input \cap studentRows,
              !.create = r.input \ studentRows,
              !.current = r.input \cap Enrolled(r.group),
              !.conflict = StudentsInConflict(r.input, r.course, r.group)]

AddReport(r, outcome) ==
    [kind |-> "add", group |-> r.group, course |-> r.course, input |-> r.input,
     outcome |-> outcome]

\* The answer to the checks, or the INSERT of the link (and of the new
\* Student row) and the commit; state.clear() in every case.
AR_Finish(op, r) ==
    /\ IF r.current # {}
       THEN /\ last' = [last EXCEPT ![op] = AddReport(r, "already")]
            /\ UNCHANGED <<studentRows, links, prevSet>>
       ELSE IF r.conflict # {}
       THEN /\ last' = [last EXCEPT ![op] = AddReport(r, "conflict")]
            /\ UNCHANGED <<studentRows, links, prevSet>>
       ELSE IF r.create \cap studentRows # {}
       THEN /\ last' = [last EXCEPT ![op] = AddReport(r, "error")]
            /\ UNCHANGED <<studentRows, links, prevSet>>
       ELSE /\ studentRows' = studentRows \cup r.create
            /\ links' = ApplyDiff(links, r.group, {}, r.input)
            /\ last' = [last EXCEPT ![op] = AddReport(r, "added")]
            /\ prevSet' = NoPrev
    /\ rec' = [rec EXCEPT ![op] = Idle]
    /\ fsm' = ClearState(fsm, op)
    /\ bag' = ClearBag(bag, op)
    /\ UNCHANGED <<tgUserId, openKb, studentKb, surveyVars>>
    /\ UNCHANGED authorVars

\* The whole handler, run to completion.
AddRecipient(op, u) ==
    /\ rec[op].pc = "idle"
    /\ fsm[op] = "ar:entering_username"
    /\ IF ~ValidEntry(u)
       THEN /\ last' = [last EXCEPT ![op] = [kind |-> "invalid"]]
            /\ UNCHANGED <<studentRows, tgUserId, links, fsm, bag, openKb, studentKb,
                           rec, prevSet, surveyVars>>
       ELSE AR_Finish(op, AR_Checked(AR_Task(op, u)))
    /\ UNCHANGED authorVars

\* The same handler in steps.
AR_Begin(op, u) ==
    /\ rec[op].pc = "idle"
    /\ fsm[op] = "ar:entering_username"
    /\ IF ~ValidEntry(u)
       THEN /\ last' = [last EXCEPT ![op] = [kind |-> "invalid"]]
            /\ UNCHANGED rec
       ELSE /\ rec' = [rec EXCEPT ![op] = AR_Task(op, u)]
            /\ last' = [last EXCEPT ![op] = NoReport]
    /\ UNCHANGED <<studentRows, tgUserId, links, fsm, bag, openKb, studentKb, prevSet, surveyVars>>
    /\ UNCHANGED authorVars

AR_Check(op) ==
    /\ rec[op].kind = "ar"
    /\ rec[op].pc = "check"
    /\ rec' = [rec EXCEPT ![op] = AR_Checked(rec[op])]
    /\ UNCHANGED <<studentRows, tgUserId, links, fsm, bag, openKb, studentKb, last, prevSet, surveyVars>>
    /\ UNCHANGED authorVars

AR_Commit(op) ==
    /\ rec[op].kind = "ar"
    /\ rec[op].pc = "commit"
    /\ AR_Finish(op, rec[op])

\* ------------------------------------------------------------------------
\* The enrollment operations of one operator, run one after another
\* ------------------------------------------------------------------------
EnrollFlows == {"sr", "ar", "dr"}

InitEnroll ==
    /\ studentRows = {}
    /\ tgUserId = [s \in Handles |-> NullId]
    /\ links = [p \in Groups \X Handles |-> 0]
    /\ fsm = [a \in Actors |-> None]
    /\ bag = [a \in Actors |-> EmptyBag]
    /\ openKb = [a \in Operators |-> {}]
    /\ studentKb = [a \in Operators |-> {}]
    /\ rec = [a \in Operators |-> Idle]
    /\ last = [a \in Actors |-> NoReport]
    /\ prevSet = NoPrev
    /\ InitSurveyIdle

EnrollStep(op) ==
    \/ \E flow \in EnrollFlows : FlowStart(op, flow)
    \/ \E flow \in EnrollFlows, c \in Courses : CourseSelected(op, flow, c)
    \/ \E flow \in EnrollFlows, g \in Groups : GroupSelected(op, flow, g)
    \/ \E g \in Groups : DeleteGroupSelected(op, g)
    \/ \E g \in Groups, s \in Handles : DeleteStudentSelected(op, g, s)
    \/ \E text \in SUBSET RawEntries : SetRecipients(op, text)
    \/ \E u \in RawEntries : AddRecipient(op, u)

NextEnroll == EnrollStep("op1")

SpecEnroll == InitEnroll /\ [][NextEnroll]_vars

\* C1: after any sequence of set_recipients, add_recipient and
\* delete_recipient operations, run one after another from a store without
\* enrollments, no student has rows in two groups of one course.
OneGroupPerCourse ==
    \A s \in Handles : \A g1 \in Groups : \A g2 \in Groups :
        (g1 # g2 /\ CourseOf(g1) = CourseOf(g2))
            => ~(links[<<g1, s>>] > 0 /\ links[<<g2, s>>] > 0)

\* C3: every committed set_recipients has to_add = requested \ current,
\* to_remove = current \ requested, to_keep = current \cap requested, the
\* three pairwise disjoint, to_add \cup to_keep = requested, and leaves the
\* group enrolled with exactly the requested students (none, when the
\* requested set is empty).
ReconcilePartition ==
    \A op \in Operators :
        last[op].kind = "set" =>
            /\ last[op].to_add = last[op].requested \ last[op].current
            /\ last[op].to_remove = last[op].current \ last[op].requested
            /\ last[op].to_keep = last[op].current \cap last[op].requested
            /\ last[op].to_add \cap last[op].to_remove = {}
            /\ last[op].to_add \cap last[op].to_keep = {}
            /\ last[op].to_remove \cap last[op].to_keep = {}
            /\ last[op].to_add \cup last[op].to_keep = last[op].requested
            /\ Enrolled(last[op].group) = last[op].requested

\* A reconciliation that both adds and removes a student.
ReconcileAddsAndRemoves ==
    \E op \in Operators :
        /\ last[op].kind = "set"
        /\ last[op].to_add # {}
        /\ last[op].to_remove # {}
        /\ last[op].requested = last[op].to_add

\* C4: a set_recipients that repeats the previous one (same group, same
\* handles, no enrollment change in between) adds nothing, removes nothing
\* and creates no student.
RepeatChangesNothing ==
    \A op \in Operators :
        (last[op].kind = "set" /\ last[op].repeat) =>
            /\ last[op].to_add = {}
            /\ last[op].to_remove = {}
            /\ last[op].created = {}

\* C5: a candidate of set_recipients for group G who is enrolled in another
\* group of G's course is reported as ignored, is not enrolled in G
\* afterwards and keeps the other enrollment (the handler writes rows of G
\* only, so the other group's rows are those it found).
ConflictIgnored ==
    \A op \in Operators :
        last[op].kind = "set" =>
            \A s \in last[op].input : \A g \in Groups :
                (/\ g # last[op].group
                 /\ CourseOf(g) = CourseOf(last[op].group)
                 /\ links[<<g, s>>] > 0)
                    => (s \in last[op].ignored /\ s \notin Enrolled(last[op].group))

\* ------------------------------------------------------------------------
\* Two operators whose handlers interleave
\* ------------------------------------------------------------------------
\* Updates are handled as concurrent tasks, each with a storage session of
\* its own and no lock: between two awaited storage calls of one handler the
\* other handler may run.  The runs start where two operators have each
\* chosen a course and one of its groups and are asked for usernames, over
\* any store that sequential use produces from matching choices.
StoreStates ==
    {l \in [Groups \X Handles -> {0, 1}] :
        \A s \in Handles : \A g1 \in Groups : \A g2 \in Groups :
            (g1 # g2 /\ CourseOf(g1) = CourseOf(g2)) => ~(l[<<g1, s>>] > 0 /\ l[<<g2, s>>] > 0)}

InitEnrollConc ==
    /\ studentRows \in SUBSET Handles
    /\ links \in StoreStates
    /\ \A s \in Handles : (\E g \in Groups : links[<<g, s>>] > 0) => s \in studentRows
    /\ tgUserId = [s \in Handles |-> NullId]
    /\ \E g1 \in Groups, g2 \in Groups :
          bag = [a \in Actors |->
                   IF a = "op1"
                   THEN [EmptyBag EXCEPT !.course_id = CourseOf(g1), !.group_id = g1]
                   ELSE IF a = "op2"
                   THEN [EmptyBag EXCEPT !.course_id = CourseOf(g2), !.group_id = g2]
                   ELSE EmptyBag]
    /\ \E f \in [Operators -> {"sr:entering_usernames", "ar:entering_username"}] :
          fsm = [a \in Actors |-> IF a \in Operators THEN f[a] ELSE None]
    /\ openKb = [a \in Operators |-> {}]
    /\ studentKb = [a \in Operators |-> {}]
    /\ rec = [a \in Operators |-> Idle]
    /\ last = [a \in Actors |-> NoReport]
    /\ prevSet = NoPrev
    /\ InitSurveyIdle

NextEnrollConc ==
    \E op \in Operators :
        \/ \E text \in SUBSET RawEntries : SR_Begin(op, text)
        \/ SR_PreCheck(op)
        \/ SR_Resolve(op)
        \/ SR_Commit(op)
        \/ \E u \in RawEntries : AR_Begin(op, u)
        \/ AR_Check(op)
        \/ AR_Commit(op)

SpecEnrollConc == InitEnrollConc /\ [][NextEnrollConc]_vars

\* Both handlers are over and both committed.
Committed(op) ==
    /\ rec[op].pc = "idle"
    /\ fsm[op] = None
    /\ \/ last[op].kind = "set"
       \/ last[op].kind = "add" /\ last[op].outcome \in {"added", "already", "conflict"}

\* C2: when two operators' requests for two groups of one course name the
\* same student and interleave, the student is in at most one group of that
\* course once both have committed.
InterleavedOneGroup ==
    (/\ Committed("op1") /\ Committed("op2")
     /\ last["op1"].group # last["op2"].group
     /\ CourseOf(last["op1"].group) = CourseOf(last["op2"].group))
        => \A s \in last["op1"].input \cap last["op2"].input :
              \A g1 \in Groups : \A g2 \in Groups :
                 (g1 # g2 /\ CourseOf(g1) = CourseOf(last["op1"].group)
                          /\ CourseOf(g2) = CourseOf(last["op1"].group))
                    => ~(links[<<g1, s>>] > 0 /\ links[<<g2, s>>] > 0)

\* ------------------------------------------------------------------------
\* Top-level commands of a student's account
\* ------------------------------------------------------------------------
\* cmd_start (student_flow/common_handlers.py): clear an active state, then
\* bind the account's id to the Student row of its username, creating the
\* row when there is none.
cmd_start(s) ==
    /\ fsm' = ClearState(fsm, s)
    /\ bag' = IF fsm[s] # None THEN ClearBag(bag, s) ELSE bag
    /\ studentRows' = studentRows \cup {s}
    /\ tgUserId' = [tgUserId EXCEPT ![s] = TgId(s)]
    /\ cancelled' = [cancelled EXCEPT ![s] = @ \/ fsm[s] = "answering"]
    /\ UNCHANGED <<links, openKb, studentKb, rec, last, prevSet,
                   responses, hnd, bc, sent, sess, completed>>
    /\ UNCHANGED authorVars

\* cmd_start of account a after it has taken the username u that another
\* account held before: the Student row of u gets the id of a.  The id is
\* unique among the rows: if another row has it, the commit raises, the
\* handler rolls back and goes on.
cmd_start_renamed(a, u) ==
    /\ a # u
    /\ fsm' = ClearState(fsm, a)
    /\ bag' = IF fsm[a] # None THEN ClearBag(bag, a) ELSE bag
    /\ cancelled' = [cancelled EXCEPT ![a] = @ \/ fsm[a] = "answering"]
    /\ IF \E x \in studentRows \ {u} : tgUserId[x] = TgId(a)
       THEN UNCHANGED <<studentRows, tgUserId>>
       ELSE /\ studentRows' = studentRows \cup {u}
            /\ tgUserId' = [tgUserId EXCEPT ![u] = TgId(a)]
    /\ UNCHANGED <<links, openKb, studentKb, rec, last, prevSet,
                   responses, hnd, bc, sent, sess, completed>>
    /\ UNCHANGED authorVars

\* cmd_help (common_flow/common_handlers.py): clear an active state; the
\* comparison with SurveyResponseStates.awaiting_answer that follows names
\* an attribute the class does not have and ends the handler, state
\* already cleared.
cmd_help(s) ==
    /\ fsm' = ClearState(fsm, s)
    /\ bag' = IF fsm[s] # None THEN ClearBag(bag, s) ELSE bag
    /\ cancelled' = [cancelled EXCEPT ![s] = @ \/ fsm[s] = "answering"]
    /\ UNCHANGED <<studentRows, tgUserId, links, openKb, studentKb, rec, last, prevSet,
                   responses, hnd, bc, sent, sess, completed>>
    /\ UNCHANGED authorVars

\* feedback_begin (student_flow/feedback_handlers.py): with an active state
\* the handler evaluates SurveyResponseStates.awaiting_answer before
\* state.clear(); the class has no such attribute, the AttributeError ends
\* the handler and nothing is cleared.  Without a state it shows the course
\* keyboard.
feedback_begin(s) ==
    /\ IF fsm[s] # None
       THEN UNCHANGED fsm
       ELSE fsm' = [fsm EXCEPT ![s] = "fb:selecting_course"]
    /\ cancelled' = [cancelled EXCEPT ![s] = @ \/ fsm[s] = "answering"]
    /\ UNCHANGED <<studentRows, tgUserId, links, bag, openKb, studentKb, rec, last, prevSet,
                   responses, hnd, bc, sent, sess, completed>>
    /\ UNCHANGED authorVars

feedback_course_selected(s, c) ==
    /\ fsm[s] = "fb:selecting_course"
    /\ bag' = [bag EXCEPT ![s].course_id = c]
    /\ fsm' = [fsm EXCEPT ![s] = "fb:selecting_anonymity"]
    /\ UNCHANGED <<studentRows, tgUserId, links, openKb, studentKb, rec, last, prevSet,
                   surveyVars>>
    /\ UNCHANGED authorVars

\* "fb_anonymity:anonymous" or "fb_anonymity:named"
feedback_anonymity_selected(s, choice) ==
    /\ fsm[s] = "fb:selecting_anonymity"
    /\ bag' = [bag EXCEPT ![s].is_anonymous =
                 IF choice = "anonymous" THEN "True" ELSE "False"]
    /\ fsm' = [fsm EXCEPT ![s] = "fb:topic"]
    /\ UNCHANGED <<studentRows, tgUserId, links, openKb, studentKb, rec, last, prevSet,
                   surveyVars>>
    /\ UNCHANGED authorVars

\* ------------------------------------------------------------------------
\* The broadcast (curator_flow/send_survey_handlers.py)
\* ------------------------------------------------------------------------
MaxBroadcasts == 2

\* The message that ends /send_now without a broadcast
Refusal(reason) == [kind |-> "refused", reason |-> reason]

\* The rows of the Student/GroupStudent join for a group, one per
\* GroupStudent row, each with the tg_user_id read.
HandleOrder == <<"alice", "bob">>
RECURSIVE Repeat(_, _)
Repeat(x, n) == IF n = 0 THEN <<>> ELSE <<x>> \o Repeat(x, n - 1)
RECURSIVE JoinRows(_, _)
JoinRows(g, i) ==
    IF i > Len(HandleOrder) THEN <<>>
    ELSE Repeat([name |-> HandleOrder[i], tg_user_id |-> tgUserId[HandleOrder[i]]],
                links[<<g, HandleOrder[i]>>]) \o JoinRows(g, i + 1)

\* A loop over every row read.
AllRows(rows) == rows

\* reachable_students: the rows whose tg_user_id is not NULL
Reachable(rows) == SelectSeq(rows, LAMBDA r : r.tg_user_id # NullId)

\* send_now_start: cancel the previous flow, show the course keyboard.
send_now_start(op) ==
    /\ fsm' = [fsm EXCEPT ![op] = "ss:selecting_course"]
    /\ bag' = IF fsm[op] # None THEN ClearBag(bag, op) ELSE bag
    /\ UNCHANGED <<studentRows, tgUserId, links, openKb, studentKb, rec, last, prevSet,
                   surveyVars>>
    /\ UNCHANGED authorVars

send_now_course_selected(op, c) ==
    /\ fsm[op] = "ss:selecting_course"
    /\ GroupsOfCourse(c) # {}
    /\ bag' = [bag EXCEPT ![op].course_id = c]
    /\ fsm' = [fsm EXCEPT ![op] = "ss:selecting_group"]
    /\ UNCHANGED <<studentRows, tgUserId, links, openKb, studentKb, rec, last, prevSet,
                   surveyVars>>
    /\ UNCHANGED authorVars

\* send_now_group_selected: a group without a survey or without students
\* ends the flow; otherwise the surveys of the group are offered.  (The
\* button pressed is one of the keyboard of the chosen course.)
send_now_group_selected(op, g) ==
    /\ fsm[op] = "ss:selecting_group"
    /\ CourseOf(g) = bag[op].course_id
    /\ IF g # SurveyGroup \/ JoinRows(g, 1) = <<>>
       THEN /\ fsm' = ClearState(fsm, op)
            /\ bag' = ClearBag(bag, op)
            /\ last' = [last EXCEPT ![op] =
                          Refusal(IF g # SurveyGroup THEN "no_surveys" ELSE "no_students")]
       ELSE /\ bag' = [bag EXCEPT ![op].group_id = g]
            /\ fsm' = [fsm EXCEPT ![op] = "ss:selecting_survey"]
            /\ UNCHANGED last
    /\ UNCHANGED <<studentRows, tgUserId, links, openKb, studentKb, rec, prevSet,
                   surveyVars>>
    /\ UNCHANGED authorVars

\* send_now_survey_selected, up to the loop: read the survey and its
\* questions (a survey of another group or without questions ends the flow
\* with a message), the students of the group and the reachable ones.
send_now_survey_selected(op, sv) ==
    /\ fsm[op] = "ss:selecting_survey"
    /\ bc.pc = "idle"
    /\ bc.count < MaxBroadcasts
    /\ IF bag[op].group_id # SurveyGroup \/ QuestionCount(sv) = 0
       THEN /\ fsm' = ClearState(fsm, op)
            /\ bag' = ClearBag(bag, op)
            /\ last' = [last EXCEPT ![op] =
                          Refusal(IF bag[op].group_id # SurveyGroup
                                  THEN "not_of_group" ELSE "no_questions")]
            /\ UNCHANGED bc
       ELSE /\ bc' = [bc EXCEPT !.pc = "sending", !.op = op,
                                !.students = JoinRows(bag[op].group_id, 1),
                                !.todo = Reachable(JoinRows(bag[op].group_id, 1)),
                                !.ok = 0, !.log = <<>>, !.count = @ + 1]
            /\ UNCHANGED <<fsm, bag, last>>
    /\ UNCHANGED <<studentRows, tgUserId, links, openKb, studentKb, rec, prevSet,
                   responses, hnd, sent, sess, completed, cancelled>>
    /\ UNCHANGED authorVars

\* initiate_survey_for_student after a successful send of question 1:
\* set_state(answering) and update_data(...), which merges into the data
\* already there.
Installed(b) ==
    [b EXCEPT !.survey_id = SurveyId, !.current_question_id = 1, !.question_order = 1,
              !.question_type = QType(1)]

\* Data written before the send is known to have gone out.
InstalledUnsent(b) ==
    [b EXCEPT !.survey_id = SurveyId, !.current_question_id = 1, !.question_order = 1]

\* bot.send_message raises: the except clauses return False, set_state and
\* update_data are not reached
NotInstalled(b) == b

\* dp.fsm.get_context(bot, student.tg_user_id, student.tg_user_id): the
\* state installed is that of the account with the id stored in the row.
AccountOf(id) == CHOOSE a \in Handles : TgId(a) = id

\* A loop that ends at the first send that fails.
StopAtFailure(todo, result) == IF result THEN Tail(todo) ELSE <<>>

\* The students the for loop still has to visit after one round, whatever
\* the result of the round
Remaining(todo, result) == Tail(todo)

\* One round of the loop: initiate_survey_for_student for the next
\* reachable student.  The send succeeds or raises (bot blocked, bad
\* request, network); a raise is caught and counts as not sent.  For a row
\* without tg_user_id the function returns False before any send.
BroadcastSend(delivered) ==
    /\ bc.pc = "sending"
    /\ bc.todo # <<>>
    /\ Head(bc.todo).tg_user_id = NullId => ~delivered
    /\ LET s == AccountOf(Head(bc.todo).tg_user_id)
           n == Head(bc.todo).name IN
         IF delivered
         THEN /\ fsm' = [fsm EXCEPT ![s] = "answering"]
              /\ bag' = [bag EXCEPT ![s] = Installed(@)]
              /\ sess' = [sess EXCEPT ![s] = @ + 1]
              /\ sent' = sent \cup {[who |-> s, dlv |-> sess[s] + 1, order |-> 1]}
              /\ cancelled' = [cancelled EXCEPT ![s] = FALSE]
              /\ bc' = [bc EXCEPT !.todo = Remaining(@, TRUE), !.ok = @ + 1,
                                  !.log = Append(@, [name |-> n, result |-> TRUE])]
         ELSE /\ bc' = [bc EXCEPT !.todo = Remaining(@, FALSE),
                                  !.log = Append(@, [name |-> n, result |-> FALSE])]
              /\ bag' = IF Head(bc.todo).tg_user_id = NullId THEN bag
                        ELSE [bag EXCEPT ![s] = NotInstalled(@)]
              /\ UNCHANGED <<fsm, sess, sent, cancelled>>
    /\ UNCHANGED <<studentRows, tgUserId, links, openKb, studentKb, rec, last, prevSet,
                   responses, hnd, completed>>
    /\ UNCHANGED authorVars

\* A count of the attempts instead of the successes.
AttemptsMade(b) == Len(b.log)

\* The counts of the status message.
SuccessfulSends(b) == b.ok
StudentCount(b) == Len(Reachable(b.students))
UnreachableCount(b) == Len(b.students) - Len(Reachable(b.students))

\* A status message that does not wait for the loop.
AnyTime(b) == TRUE

\* The for loop has visited every reachable student.
LoopDone(b) == b.todo = <<>>

\* After the loop: the status message, state.clear() of the operator.
BroadcastSummary ==
    /\ bc.pc = "sending"
    /\ LoopDone(bc)
    /\ last' = [last EXCEPT ![bc.op] =
                  [kind |-> "sent", delivered |-> SuccessfulSends(bc),
                   failed |-> StudentCount(bc) - SuccessfulSends(bc),
                   unreachable |-> UnreachableCount(bc),
                   students |-> bc.students, log |-> bc.log]]
    /\ fsm' = ClearState(fsm, bc.op)
    /\ bag' = ClearBag(bag, bc.op)
    /\ bc' = [NoBroadcast EXCEPT !.count = bc.count]
    /\ UNCHANGED <<studentRows, tgUserId, links, openKb, studentKb, rec, prevSet,
                   responses, hnd, sent, sess, completed, cancelled>>
    /\ UNCHANGED authorVars

\* ------------------------------------------------------------------------
\* The answer handlers (student_flow/survey_handlers.py)
\* ------------------------------------------------------------------------
\* handle_scale_answer, handle_skip_button and handle_text_answer are the
\* same chain: save_response, then send_next_question_or_complete; they
\* differ in the answer text stored.  The
\* dispatcher runs every update as a task of its own, so a second answer of
\* the same student starts while the first waits for storage or transport.
MaxResponses == 3

FreeSlots(s) == {h \in 1..MaxInFlight : hnd[s][h].pc = "none"}
InFlight == Cardinality({<<s, h>> \in Handles \X (1..MaxInFlight) : hnd[s][h].pc = "save"})

\* is_anonymous = data.get("is_anonymous", False)
IsAnonymous(b) == b.is_anonymous = "True"

\* The answer texts: the callback data of a scale button (two of the ten),
\* SKIPPED_ANSWER of the skip button, a message text that does not begin
\* with "/".  AnyAnswer: an answer whose text is not followed.
ScaleAnswers == {"1", "10"}
SKIPPED_ANSWER == "[SKIPPED]"
FreeText == "free text"
AnyAnswer == "any"

\* The state filter lets the update in; save_response reads the data.
\* Without survey_id or current_question_id it returns False and the
\* handler clears the state.  This is the event of a scale button, of the
\* skip button or of a text that does not begin with "/"; none of the
\* three handlers looks at the type of the current question.
AnswerTakenAs(s, answer) ==
    /\ fsm[s] = "answering"
    /\ FreeSlots(s) # {}
    /\ LET h == CHOOSE x \in FreeSlots(s) : \A y \in FreeSlots(s) : x <= y IN
         IF bag[s].survey_id = None \/ bag[s].current_question_id = 0
         THEN /\ fsm' = ClearState(fsm, s)
              /\ bag' = ClearBag(bag, s)
              /\ UNCHANGED hnd
         ELSE /\ hnd' = [hnd EXCEPT ![s][h] =
                           [pc |-> "save", q |-> bag[s].current_question_id,
                            anon |-> IsAnonymous(bag[s]),
                            sid |-> bag[s].session_id, dlv |-> sess[s],
                            late |-> cancelled[s], next |-> 0, answer |-> answer,
                            qt |-> bag[s].question_type, row |-> NoRow]]
              /\ UNCHANGED <<fsm, bag>>
    /\ UNCHANGED <<studentRows, tgUserId, links, openKb, studentKb, rec, last, prevSet,
                   responses, bc, sent, sess, completed, cancelled>>
    /\ UNCHANGED authorVars

AnswerTaken(s) == AnswerTakenAs(s, AnyAnswer)

\* An answer event at any time, a button pressed twice included, as long
\* as the rows stored and being stored are fewer than MaxResponses
AnswerArrive(s) ==
    /\ Len(responses) + InFlight < MaxResponses
    /\ AnswerTaken(s)

\* The Student row with this account's tg_user_id, if any
StudentOfAccount(s) == {x \in studentRows : tgUserId[x] = TgId(s)}

\* The account's own id, whatever the flag.
OwnUserId(s, anon) == TgId(s)

\* student_tg_username and student_tg_id of the new Response
StoredUsername(s, anon) == IF anon THEN AnonName ELSE s
StoredUserId(s, anon) == IF anon THEN AnonId ELSE TgId(s)

\* session_id=session_id or ""
StoredSessionId(sid) == IF sid = None THEN "" ELSE sid

\* The Response row of save_response (history fields: who wrote it, in
\* which delivery, for which question, with the flag read, and whether a
\* cancelling command came before the event, whether a Student row had the
\* account's id, whether the Question row was stored at the commit).
NewResponse(s, r) ==
    [survey_id |-> SurveyId,
     student_tg_id |-> StoredUserId(s, r.anon),
     student_tg_username |-> StoredUsername(s, r.anon),
     question_type |-> IF r.qt # None THEN r.qt ELSE StoredType(r.q),
     stored |-> QuestionStored(r.q),
     answer |-> r.answer,
     session_id |-> StoredSessionId(r.sid),
     known |-> StudentOfAccount(s) # {},
     who |-> s, dlv |-> r.dlv, q |-> r.q, anon |-> r.anon, late |-> r.late]

\* A save that is never refused.
NeverRefused(s, anon) == FALSE

\* if not student and not is_anonymous: return False
SaveRefused(s, anon) == StudentOfAccount(s) = {} /\ ~anon

\* save_response from the SELECT of the Student to the commit.  No Student
\* and not anonymous, or no Question with the id of the data: False, and
\* the handler tells of the error and clears the state.
AnswerSave(s, h) ==
    /\ hnd[s][h].pc = "save"
    /\ IF SaveRefused(s, hnd[s][h].anon) \/ ~QuestionStored(hnd[s][h].q)
       THEN /\ fsm' = ClearState(fsm, s)
            /\ bag' = ClearBag(bag, s)
            /\ hnd' = [hnd EXCEPT ![s][h] = NoHandler]
            /\ UNCHANGED responses
       ELSE /\ responses' = Append(responses, NewResponse(s, hnd[s][h]))
            /\ hnd' = [hnd EXCEPT ![s][h].pc = "order"]
            /\ UNCHANGED <<fsm, bag>>
    /\ UNCHANGED <<studentRows, tgUserId, links, openKb, studentKb, rec, last, prevSet,
                   bc, sent, sess, completed, cancelled>>
    /\ UNCHANGED authorVars

\* send_next_question_or_complete reads the data: no survey_id clears the
\* state; otherwise next_order = question_order + 1 (question_order
\* defaults to 1) and the SELECT of that question follows.
\* A step that asks for the question just answered again.
SameOrder(b) == IF b.question_order = 0 THEN 1 ELSE b.question_order

NextOrder(b) == (IF b.question_order = 0 THEN 1 ELSE b.question_order) + 1

AnswerReadOrder(s, h) ==
    /\ hnd[s][h].pc = "order"
    /\ IF bag[s].survey_id = None
       THEN /\ fsm' = ClearState(fsm, s)
            /\ bag' = ClearBag(bag, s)
            /\ hnd' = [hnd EXCEPT ![s][h] = NoHandler]
       ELSE /\ \E row \in RowsOfOrder(NextOrder(bag[s])) :
                 hnd' = [hnd EXCEPT ![s][h].pc = "send", ![s][h].next = NextOrder(bag[s]),
                                    ![s][h].dlv = sess[s], ![s][h].row = row]
            /\ UNCHANGED <<fsm, bag>>
    /\ UNCHANGED <<studentRows, tgUserId, links, openKb, studentKb, rec, last, prevSet,
                   responses, bc, sent, sess, completed, cancelled>>
    /\ UNCHANGED authorVars

\* A step that sends the question and leaves the data as they were.
NotAdvanced(b, n) == b

\* update_data(current_question_id=next_question.id, question_type,
\* question_order=next_order)
Advanced(b, row) ==
    [b EXCEPT !.current_question_id = QuestionId(row), !.question_order = row.order,
              !.question_type = row.q_type]

\* A send that raises and data that go on to question n all the same.
AdvancedUnsent(b, n) == [b EXCEPT !.current_question_id = n, !.question_order = n]

\* bot.send_message raises: update_data is not reached
Unsent(b, n) == b

\* The send of the next question and update_data, or of the completion
\* notice and state.clear().  A send that raises ends the handler there.
AnswerSend(s, h, delivered) ==
    /\ hnd[s][h].pc = "send"
    /\ hnd' = [hnd EXCEPT ![s][h] = NoHandler]
    /\ IF ~delivered
       THEN /\ bag' = [bag EXCEPT ![s] = Unsent(@, hnd[s][h].next)]
            /\ UNCHANGED <<fsm, sent, completed>>
       ELSE IF hnd[s][h].row # NoRow
       THEN /\ sent' = sent \cup {[who |-> s, dlv |-> hnd[s][h].dlv, order |-> hnd[s][h].next]}
            /\ bag' = [bag EXCEPT ![s] = Advanced(@, hnd[s][h].row)]
            /\ UNCHANGED <<fsm, completed>>
       ELSE /\ fsm' = ClearState(fsm, s)
            /\ bag' = ClearBag(bag, s)
            /\ completed' = completed \cup {<<s, hnd[s][h].dlv>>}
            /\ UNCHANGED sent
    /\ UNCHANGED <<studentRows, tgUserId, links, openKb, studentKb, rec, last, prevSet,
                   responses, bc, sess, cancelled>>
    /\ UNCHANGED authorVars

\* A message "/skip" (or any text that begins with "/" and is no command
\* of an earlier router) of a student in Answering.  handle_text_answer is
\* registered before handle_skip_command and its filter, F.text, takes the
\* message: the text begins with "/", so the handler answers with the hint
\* to enter a text or press the skip button, and returns.
SlashTextArrive(s) ==
    /\ fsm[s] = "answering"
    /\ FreeSlots(s) # {}
    /\ LET h == CHOOSE x \in FreeSlots(s) : \A y \in FreeSlots(s) : x <= y IN
         hnd' = [hnd EXCEPT ![s][h].pc = "hint"]
    /\ UNCHANGED <<studentRows, tgUserId, links, fsm, bag, openKb, studentKb, rec, last,
                   prevSet, responses, bc, sent, sess, completed, cancelled>>
    /\ UNCHANGED authorVars

\* The hint is sent, or the send raises: the handler is over.
SlashTextReply(s, h) ==
    /\ hnd[s][h].pc = "hint"
    /\ hnd' = [hnd EXCEPT ![s][h] = NoHandler]
    /\ UNCHANGED <<studentRows, tgUserId, links, fsm, bag, openKb, studentKb, rec, last,
                   prevSet, responses, bc, sent, sess, completed, cancelled>>
    /\ UNCHANGED authorVars

\* ------------------------------------------------------------------------
\* Survey delivery and answering
\* ------------------------------------------------------------------------
\* Both students are enrolled in the group of the survey.  The student who
\* answers has started the bot or not; the other never did.  Each operator
\* has gone through /send_now to the survey keyboard of the group.
Answerers == {"alice"}
FeedbackCourses == {"cA"}

InitSurvey ==
    /\ studentRows = Handles
    /\ tgUserId \in [Handles -> {NullId} \cup {TgId(s) : s \in Handles}]
    /\ \A s \in Handles : tgUserId[s] \in (IF s \in Answerers THEN {NullId, TgId(s)} ELSE {NullId})
    /\ links = [p \in Groups \X Handles |-> IF p[1] = SurveyGroup THEN 1 ELSE 0]
    /\ fsm = [a \in Actors |-> IF a \in Operators THEN "ss:selecting_survey" ELSE None]
    /\ bag = [a \in Actors |->
                IF a \in Operators
                THEN [EmptyBag EXCEPT !.course_id = CourseOf(SurveyGroup), !.group_id = SurveyGroup]
                ELSE EmptyBag]
    /\ openKb = [a \in Operators |-> {}]
    /\ studentKb = [a \in Operators |-> {}]
    /\ rec = [a \in Operators |-> Idle]
    /\ last = [a \in Actors |-> NoReport]
    /\ prevSet = NoPrev
    /\ InitSurveyIdle

OperatorStep(op) ==
    \/ send_now_start(op)
    \/ \E c \in Courses : send_now_course_selected(op, c)
    \/ \E g \in Groups : send_now_group_selected(op, g)
    \/ \E sv \in Surveys : send_now_survey_selected(op, sv)

StudentStep(s) ==
    \/ cmd_start(s)
    \/ cmd_help(s)
    \/ feedback_begin(s)
    \/ \E c \in FeedbackCourses : feedback_course_selected(s, c)
    \/ \E choice \in {"anonymous", "named"} : feedback_anonymity_selected(s, choice)
    \/ AnswerArrive(s)
    \/ \E h \in 1..MaxInFlight : AnswerSave(s, h)
    \/ \E h \in 1..MaxInFlight : AnswerReadOrder(s, h)
    \/ \E h \in 1..MaxInFlight, delivered \in BOOLEAN : AnswerSend(s, h, delivered)

NextSurvey ==
    \/ \E op \in Operators : send_now_survey_selected(op, SurveyId)
    \/ \E delivered \in BOOLEAN : BroadcastSend(delivered)
    \/ BroadcastSummary
    \/ \E s \in Answerers : StudentStep(s)

SpecSurvey == InitSurvey /\ [][NextSurvey]_vars

\* C7: a question of order N+1 is delivered to a student only when a
\* Response of that student for order N of the same delivery is stored.
AnswerBeforeNext ==
    \A e \in sent :
        e.order > 1 =>
            \E i \in 1..Len(responses) :
                /\ responses[i].who = e.who
                /\ responses[i].dlv = e.dlv
                /\ responses[i].q = e.order - 1

\* The question orders of the Responses of one delivery, in commit order.
OrdersOf(s, d) ==
    LET rows == SelectSeq(responses, LAMBDA r : r.who = s /\ r.dlv = d)
    IN  [i \in 1..Len(rows) |-> rows[i].q]

\* C8: the Responses of a completed delivery answer the orders
\* 1..NQuestions, each once and in this order.
CompletedInOrder ==
    \A c \in completed : OrdersOf(c[1], c[2]) = [i \in 1..NQuestions |-> i]

\* C9: a Response written while is_anonymous is set has the sentinel as
\* username and 0 as id, neither of them the writer's.
AnonymousStored ==
    \A i \in 1..Len(responses) :
        responses[i].anon =>
            /\ responses[i].student_tg_username = AnonName
            /\ responses[i].student_tg_id = AnonId
            /\ responses[i].student_tg_username # responses[i].who
            /\ responses[i].student_tg_id # TgId(responses[i].who)

\* An anonymous Response is stored.
AnonymousWritten ==
    \E i \in 1..Len(responses) : responses[i].anon

\* C10: after /start, /help or /feedback handled in Answering, and until a
\* survey is delivered again, the student has no Answering state, no survey
\* in the data, and no answer event that came later stored a Response.
CancelStops ==
    \A s \in Handles :
        cancelled[s] =>
            /\ fsm[s] # "answering"
            /\ bag[s].survey_id = None
            /\ \A i \in 1..Len(responses) : ~(responses[i].who = s /\ responses[i].late)

\* ------------------------------------------------------------------------
\* The operator's /send_now flow and the broadcast alone
\* ------------------------------------------------------------------------
\* Any enrollment of the survey's group; nobody has started the bot yet.
InitBroadcast ==
    /\ studentRows = Handles
    /\ tgUserId = [s \in Handles |-> NullId]
    /\ \E e \in SUBSET Handles :
          links = [p \in Groups \X Handles |->
                     IF p[1] = SurveyGroup /\ p[2] \in e THEN 1 ELSE 0]
    /\ fsm = [a \in Actors |-> None]
    /\ bag = [a \in Actors |-> EmptyBag]
    /\ openKb = [a \in Operators |-> {}]
    /\ studentKb = [a \in Operators |-> {}]
    /\ rec = [a \in Operators |-> Idle]
    /\ last = [a \in Actors |-> NoReport]
    /\ prevSet = NoPrev
    /\ InitSurveyIdle

NextBroadcast ==
    \/ OperatorStep("op1")
    \/ \E delivered \in BOOLEAN : BroadcastSend(delivered)
    \/ BroadcastSummary
    \/ \E s \in Handles : cmd_start(s)

SpecBroadcast == InitBroadcast /\ [][NextBroadcast]_vars

\* How many entries of a sequence satisfy a test
CountIf(seq, Test(_)) == Len(SelectSeq(seq, Test))

\* C6: in the status message of a broadcast, delivered + failed +
\* unreachable is the number of rows read for the group; unreachable is the
\* number of them without tg_user_id, delivered and failed the numbers of
\* reachable ones whose send succeeded and did not.
SummaryAddsUp ==
    \A op \in Operators :
        last[op].kind = "sent" =>
            /\ last[op].delivered + last[op].failed + last[op].unreachable
                  = Len(last[op].students)
            /\ last[op].unreachable
                  = CountIf(last[op].students, LAMBDA r : r.tg_user_id = NullId)
            /\ last[op].delivered = CountIf(last[op].log, LAMBDA e : e.result)
            /\ last[op].failed = CountIf(last[op].log, LAMBDA e : ~e.result)
            /\ Len(last[op].log)
                  = CountIf(last[op].students, LAMBDA r : r.tg_user_id # NullId)

\* A status message that counts a delivery and a failure.
SummaryMixed ==
    \E op \in Operators :
        /\ last[op].kind = "sent"
        /\ last[op].delivered = 1
        /\ last[op].failed = 1

\* ------------------------------------------------------------------------
\* The state a delivery installs
\* ------------------------------------------------------------------------
\* C11: a delivery to a student who is in a flow leaves the data of a fresh
\* session only: the survey, the first question and order 1, and nothing of
\* the flow before it.
FreshInstall ==
    [][\A s \in Handles :
          (sess'[s] # sess[s] /\ fsm[s] # None) => bag'[s] = Installed(EmptyBag)]_vars

\* C12: every Response has a session id that is not empty, and two
\* Responses have the same one exactly when the same student wrote them in
\* the same delivery.
SessionIds ==
    \A i, j \in 1..Len(responses) :
        /\ responses[i].session_id # ""
        /\ (responses[i].session_id = responses[j].session_id)
              <=> (responses[i].who = responses[j].who /\ responses[i].dlv = responses[j].dlv)

\* ------------------------------------------------------------------------
\* Broadcasts that cannot deliver
\* ------------------------------------------------------------------------
\* C13: the status message of a completed broadcast is written only for a
\* group with an enrolled student who is reachable; without one the request
\* ends with a refusal instead.
RefusedWithoutRecipients ==
    \A op \in Operators :
        last[op].kind = "sent" => Reachable(last[op].students) # <<>>

\* The names of a sequence of join rows or of log entries
NamesOf(seq) == [i \in 1..Len(seq) |-> seq[i].name]

\* C14: whatever the results, the attempts of a broadcast are one for each
\* reachable row of the group, in the order read: during the loop the
\* attempts made and those to come add up to it, and so do the attempts
\* reported at the end.
OneAttemptEach ==
    /\ bc.pc = "sending" =>
          NamesOf(bc.log) \o NamesOf(bc.todo) = NamesOf(Reachable(bc.students))
    /\ \A op \in Operators :
          last[op].kind = "sent" =>
              NamesOf(last[op].log) = NamesOf(Reachable(last[op].students))

\* A broadcast whose first send failed made its second attempt.
AttemptAfterFailure ==
    \E op \in Operators :
        /\ last[op].kind = "sent"
        /\ Len(last[op].log) = 2
        /\ ~last[op].log[1].result

\* ------------------------------------------------------------------------
\* The broadcast as a task of the event loop
\* ------------------------------------------------------------------------
\* The handler that broadcasts is one task; the event loop resumes it after
\* every await (a send returns or raises within the request timeout, the
\* sleep between two sends is 0.1 s), whatever other updates are handled.
SpecBroadcastLive ==
    /\ SpecBroadcast
    /\ WF_vars(\E delivered \in BOOLEAN : BroadcastSend(delivered))
    /\ WF_vars(BroadcastSummary)

\* C15: a broadcast that is sending comes to its end, with a status message
\* that reports an attempt for every reachable student, also when the
\* operator sends /send_now again while it runs.
BroadcastCompletes ==
    \A n \in 1..MaxBroadcasts :
        (bc.pc = "sending" /\ bc.count = n)
            ~> /\ bc.pc = "idle"
               /\ bc.count = n
               /\ \E op \in Operators :
                     /\ last[op].kind = "sent"
                     /\ Len(last[op].log) = Len(Reachable(last[op].students))

\* The operator has sent /send_now during a broadcast that has made an
\* attempt and has one to make.
CommandDuringBroadcast ==
    /\ bc.pc = "sending"
    /\ fsm[bc.op] = "ss:selecting_course"
    /\ bc.log # <<>>
    /\ bc.todo # <<>>

\* ------------------------------------------------------------------------
\* Answers of one student
\* ------------------------------------------------------------------------
\* One operator broadcasts; alice answers, by button, text or /skip, and
\* uses the feedback flow; the account that was bob's takes the username
\* alice and sends /start.
NextAnswer ==
    \/ send_now_survey_selected("op1", SurveyId)
    \/ \E delivered \in BOOLEAN : BroadcastSend(delivered)
    \/ BroadcastSummary
    \/ cmd_start_renamed("bob", "alice")
    \/ feedback_begin("alice")
    \/ \E c \in FeedbackCourses : feedback_course_selected("alice", c)
    \/ \E choice \in {"anonymous", "named"} : feedback_anonymity_selected("alice", choice)
    \/ AnswerArrive("alice")
    \/ \E h \in 1..MaxInFlight : AnswerSave("alice", h)
    \/ \E h \in 1..MaxInFlight : AnswerReadOrder("alice", h)
    \/ \E h \in 1..MaxInFlight, delivered \in BOOLEAN : AnswerSend("alice", h, delivered)
    \/ SlashTextArrive("alice")
    \/ \E h \in 1..MaxInFlight : SlashTextReply("alice", h)

SpecAnswer == InitSurvey /\ [][NextAnswer]_vars

\* C16: a Response written while no Student row had the id of the account
\* is an anonymous one and carries the sentinel name and id; none is written
\* for such an account without the anonymity flag.
UnknownWritesSentinel ==
    \A i \in 1..Len(responses) :
        ~responses[i].known =>
            /\ responses[i].anon
            /\ responses[i].student_tg_username = AnonName
            /\ responses[i].student_tg_id = AnonId

\* An account without a Student row has stored a Response.
UnknownHasWritten ==
    \E i \in 1..Len(responses) : ~responses[i].known

\* C17: the advance step that follows a stored answer reads the order k of
\* the student's data and looks for order k + 1; when its send goes out, a
\* question of order k + 1 <= NQuestions is the one sent and becomes the
\* current question and order of the data, state kept; with k + 1 beyond
\* the last question the session is completed, state and data cleared.
AdvanceStep ==
    [][\A s \in Handles : \A h \in 1..MaxInFlight :
          /\ (hnd[s][h].pc = "order" /\ hnd'[s][h].pc = "send" /\ bag[s].question_order # 0)
                => hnd'[s][h].next = bag[s].question_order + 1
          /\ (/\ hnd[s][h].pc = "send"
              /\ hnd'[s][h].pc = "none"
              /\ <<fsm[s], bag[s], sent, completed>> # <<fsm'[s], bag'[s], sent', completed'>>)
                => IF hnd[s][h].next <= NQuestions
                   THEN /\ [who |-> s, dlv |-> hnd[s][h].dlv, order |-> hnd[s][h].next] \in sent'
                        /\ bag'[s].current_question_id = hnd[s][h].next
                        /\ bag'[s].question_order = hnd[s][h].next
                        /\ bag'[s].survey_id = bag[s].survey_id
                        /\ fsm'[s] = fsm[s]
                   ELSE /\ fsm'[s] = None
                        /\ bag'[s] = EmptyBag
                        /\ sent' = sent
                        /\ <<s, hnd[s][h].dlv>> \in completed']_vars

\* A session was advanced from question to question and completed.
AdvancedToTheEnd ==
    \E c \in completed :
        \A n \in 2..NQuestions : [who |-> c[1], dlv |-> c[2], order |-> n] \in sent

\* C18: every answer event of a student in Answering, the /skip command
\* among them, is taken by a handler that saves a Response and advances;
\* none ends with the hint to answer otherwise.
EveryEventSaves ==
    \A s \in Handles : \A h \in 1..MaxInFlight : hnd[s][h].pc # "hint"

\* ------------------------------------------------------------------------
\* One broadcast, answered in full
\* ------------------------------------------------------------------------
\* Both students are enrolled in the group of the survey, each has sent
\* /start or not.  Every send goes out, every row is stored.  A student
\* answers or skips, once, each question received: an event comes when the
\* questions received in the session are more than the answers given and no
\* handler of the student is at work.
AnsweredCount(s) ==
    Len(SelectSeq(responses, LAMBDA r : r.who = s /\ r.dlv = sess[s]))
ReceivedCount(s) == Cardinality({e \in sent : e.who = s /\ e.dlv = sess[s]})

AnswerReceived(s) ==
    /\ \A h \in 1..MaxInFlight : hnd[s][h].pc = "none"
    /\ AnsweredCount(s) < ReceivedCount(s)
    /\ AnswerTaken(s)

InitHappy ==
    /\ studentRows = Handles
    /\ tgUserId \in [Handles -> {NullId} \cup {TgId(s) : s \in Handles}]
    /\ \A s \in Handles : tgUserId[s] \in {NullId, TgId(s)}
    /\ links = [p \in Groups \X Handles |-> IF p[1] = SurveyGroup THEN 1 ELSE 0]
    /\ fsm = [a \in Actors |-> IF a = "op1" THEN "ss:selecting_survey" ELSE None]
    /\ bag = [a \in Actors |->
                IF a = "op1"
                THEN [EmptyBag EXCEPT !.course_id = CourseOf(SurveyGroup), !.group_id = SurveyGroup]
                ELSE EmptyBag]
    /\ openKb = [a \in Operators |-> {}]
    /\ studentKb = [a \in Operators |-> {}]
    /\ rec = [a \in Operators |-> Idle]
    /\ last = [a \in Actors |-> NoReport]
    /\ prevSet = NoPrev
    /\ InitSurveyIdle

NextHappy ==
    \/ send_now_survey_selected("op1", SurveyId)
    \/ BroadcastSend(TRUE)
    \/ BroadcastSummary
    \/ \E s \in Handles :
          \/ AnswerReceived(s)
          \/ \E h \in 1..MaxInFlight : AnswerSave(s, h)
          \/ \E h \in 1..MaxInFlight : AnswerReadOrder(s, h)
          \/ \E h \in 1..MaxInFlight : AnswerSend(s, h, TRUE)

\* The broadcast and every handler are tasks the event loop resumes; the
\* students answer what they receive.
SpecHappy ==
    /\ InitHappy
    /\ [][NextHappy]_vars
    /\ WF_vars(BroadcastSend(TRUE))
    /\ WF_vars(BroadcastSummary)
    /\ \A s \in Handles :
          /\ WF_vars(AnswerReceived(s))
          /\ WF_vars(\E h \in 1..MaxInFlight : AnswerSave(s, h))
          /\ WF_vars(\E h \in 1..MaxInFlight : AnswerReadOrder(s, h))
          /\ WF_vars(\E h \in 1..MaxInFlight : AnswerSend(s, h, TRUE))

\* The end of a broadcast answered in full: the status message counts the
\* reachable students as delivered and the others as unreachable; a
\* reachable student has no state and no data left and has one Response for
\* each question, in order; the others have none.
AnsweredInFull ==
    /\ bc.pc = "idle"
    /\ last["op1"].kind = "sent"
    /\ last["op1"].delivered = Cardinality({s \in Handles : tgUserId[s] # NullId})
    /\ last["op1"].unreachable = Cardinality({s \in Handles : tgUserId[s] = NullId})
    /\ last["op1"].failed = 0
    /\ \A s \in Handles :
          IF tgUserId[s] # NullId
          THEN /\ fsm[s] = None
               /\ bag[s] = EmptyBag
               /\ <<s, 1>> \in completed
               /\ OrdersOf(s, 1) = [i \in 1..NQuestions |-> i]
               /\ AnsweredCount(s) = NQuestions
          ELSE /\ fsm[s] = None
               /\ \A i \in 1..Len(responses) : responses[i].who # s

\* C19: a broadcast in which every send goes out and every reachable
\* student answers each question received comes to the end described.
HappyPathCompletes == (bc.pc = "sending") ~> AnsweredInFull

\* One student reachable and one not: the broadcast is over, the survey
\* completed by the one, with NQuestions Responses in all.
OneOfTwoCompleted ==
    /\ bc.pc = "idle"
    /\ last["op1"].kind = "sent"
    /\ last["op1"].delivered = 1
    /\ last["op1"].unreachable = 1
    /\ completed # {}
    /\ Len(responses) = NQuestions

\* ------------------------------------------------------------------------
\* Enrollment, /start and broadcasts together
\* ------------------------------------------------------------------------
\* From an empty store one operator sets the recipients of the survey's
\* group, with messages of well-formed usernames, and broadcasts; the
\* students send /start at any time.
ReachTexts == SUBSET {[ats |-> 1, name |-> "alice"], [ats |-> 1, name |-> "bob"]}

NextReach ==
    \/ FlowStart("op1", "sr")
    \/ CourseSelected("op1", "sr", CourseOf(SurveyGroup))
    \/ GroupSelected("op1", "sr", SurveyGroup)
    \/ \E text \in ReachTexts : SetRecipients("op1", text)
    \/ OperatorStep("op1")
    \/ \E delivered \in BOOLEAN : BroadcastSend(delivered)
    \/ BroadcastSummary
    \/ \E s \in Handles : cmd_start(s)

SpecReach == InitEnroll /\ [][NextReach]_vars

MAX_QUESTIONS == 7
QTypes == {"scale", "text"}

\* What the operator enters as question n is its type; from question
\* MaxTyped + 1 on it is a scale question.
MaxTyped == 1
TypeChoices(n) == IF n <= MaxTyped THEN QTypes ELSE {"scale"}

FreeAuthorSlots(op) == {h \in 1..MaxInFlight : fin[op][h].pc = "idle"}
AuthorSlot(op) == CHOOSE x \in FreeAuthorSlots(op) : \A y \in FreeAuthorSlots(op) : x <= y

\* A save that issues its DELETE whatever the list holds.
SaveAnyway(op, h, b) ==
    /\ fin' = [fin EXCEPT ![op][h] =
                 [NoFinalize EXCEPT !.pc = "delete", !.survey = b.survey_id,
                                    !.list = b.questions]]
    /\ bag' = [bag EXCEPT ![op] = b]
    /\ UNCHANGED <<fsm, last>>

\* save_questions_and_finish up to its first storage call, with the data b
\* read: no survey or no question ends the flow with a message; otherwise
\* the DELETE statement is issued.
SaveBegin(op, h, b) ==
    IF b.survey_id = None \/ b.questions = <<>>
    THEN /\ last' = [last EXCEPT ![op] =
                       [kind |-> IF b.survey_id = None THEN "lost_survey" ELSE "nothing_added",
                        survey |-> b.survey_id]]
         /\ fsm' = ClearState(fsm, op)
         /\ bag' = ClearBag(bag, op)
         /\ UNCHANGED fin
    ELSE /\ fin' = [fin EXCEPT ![op][h] =
                      [NoFinalize EXCEPT !.pc = "delete", !.survey = b.survey_id,
                                         !.list = b.questions]]
         /\ bag' = [bag EXCEPT ![op] = b]
         /\ UNCHANGED <<fsm, last>>

\* question_number > MAX_QUESTIONS
LimitReached(b) == Len(b.questions) + 1 > MAX_QUESTIONS

\* ask_next_question_or_finish with the data b just written: at the limit
\* it saves; otherwise it sends the prompt with the type keyboard and sets
\* the state when the send has returned.
AskNextOrFinish(op, h, b) ==
    IF LimitReached(b)
    THEN SaveBegin(op, h, b)
    ELSE /\ fin' = [fin EXCEPT ![op][h].pc = "prompt"]
         /\ bag' = [bag EXCEPT ![op] = b]
         /\ UNCHANGED <<fsm, last>>

\* /set_questions: cancel the previous flow, show the course keyboard (the
\* last message to the operator is no report any more).
set_questions_start(op) ==
    /\ fsm' = [fsm EXCEPT ![op] = "sq:selecting_course"]
    /\ bag' = IF fsm[op] # None THEN ClearBag(bag, op) ELSE bag
    /\ last' = [last EXCEPT ![op] = NoReport]
    /\ UNCHANGED <<studentRows, tgUserId, links, openKb, studentKb, rec, prevSet,
                   surveyVars, authorVars>>

set_questions_course_selected(op, c) ==
    /\ fsm[op] = "sq:selecting_course"
    /\ GroupsOfCourse(c) # {}
    /\ bag' = [bag EXCEPT ![op].course_id = c]
    /\ fsm' = [fsm EXCEPT ![op] = "sq:selecting_group"]
    /\ UNCHANGED <<studentRows, tgUserId, links, openKb, studentKb, rec, last, prevSet,
                   surveyVars, authorVars>>

\* A group without a survey ends the flow.
set_questions_group_selected(op, g) ==
    /\ fsm[op] = "sq:selecting_group"
    /\ CourseOf(g) = bag[op].course_id
    /\ IF g # SurveyGroup
       THEN /\ fsm' = ClearState(fsm, op)
            /\ bag' = ClearBag(bag, op)
       ELSE /\ bag' = [bag EXCEPT ![op].group_id = g]
            /\ fsm' = [fsm EXCEPT ![op] = "sq:selecting_survey"]
    /\ UNCHANGED <<studentRows, tgUserId, links, openKb, studentKb, rec, last, prevSet,
                   surveyVars, authorVars>>

\* A survey with questions asks for the confirmation of the overwrite; one
\* without starts the list.
set_questions_survey_selected(op, sv) ==
    /\ fsm[op] = "sq:selecting_survey"
    /\ FreeAuthorSlots(op) # {}
    /\ IF questionRows[sv] # <<>>
       THEN /\ bag' = [bag EXCEPT ![op].survey_id = sv]
            /\ fsm' = [fsm EXCEPT ![op] = "sq:confirming_overwrite"]
            /\ UNCHANGED <<fin, last>>
       ELSE AskNextOrFinish(op, AuthorSlot(op),
                            [bag[op] EXCEPT !.survey_id = sv, !.questions = <<>>])
    /\ UNCHANGED <<studentRows, tgUserId, links, openKb, studentKb, rec, prevSet,
                   surveyVars, questionRows>>
    /\ UNCHANGED courseRows

\* "sq_confirm_overwrite:yes" or "sq_confirm_overwrite:no"
set_questions_overwrite_confirmed(op, action) ==
    /\ fsm[op] = "sq:confirming_overwrite"
    /\ FreeAuthorSlots(op) # {}
    /\ IF action = "yes"
       THEN AskNextOrFinish(op, AuthorSlot(op), [bag[op] EXCEPT !.questions = <<>>])
       ELSE /\ fsm' = ClearState(fsm, op)
            /\ bag' = ClearBag(bag, op)
            /\ UNCHANGED <<fin, last>>
    /\ UNCHANGED <<studentRows, tgUserId, links, openKb, studentKb, rec, prevSet,
                   surveyVars, questionRows>>
    /\ UNCHANGED courseRows

\* "sq_qtype:finish", "sq_qtype:scale" or "sq_qtype:text"
set_questions_type_selected(op, action) ==
    /\ fsm[op] = "sq:selecting_question_type"
    /\ FreeAuthorSlots(op) # {}
    /\ IF action = "finish"
       THEN SaveBegin(op, AuthorSlot(op), bag[op])
       ELSE /\ bag' = [bag EXCEPT ![op].current_question_type = action]
            /\ fsm' = [fsm EXCEPT ![op] = "sq:entering_question_text"]
            /\ UNCHANGED <<fin, last>>
    /\ UNCHANGED <<studentRows, tgUserId, links, openKb, studentKb, rec, prevSet,
                   surveyVars, questionRows>>
    /\ UNCHANGED courseRows

\* The text of a question: append it with the type chosen, write the list,
\* go on.
set_questions_text_entered(op) ==
    /\ fsm[op] = "sq:entering_question_text"
    /\ FreeAuthorSlots(op) # {}
    /\ IF bag[op].current_question_type = None
       THEN /\ fsm' = ClearState(fsm, op)
            /\ bag' = ClearBag(bag, op)
            /\ UNCHANGED <<fin, last>>
       ELSE AskNextOrFinish(op, AuthorSlot(op),
                [bag[op] EXCEPT !.questions = Append(@, bag[op].current_question_type)])
    /\ UNCHANGED <<studentRows, tgUserId, links, openKb, studentKb, rec, prevSet,
                   surveyVars, questionRows>>
    /\ UNCHANGED courseRows

\* The prompt is sent: set_state(selecting_question_type).  A send that
\* raises ends the handler before.
PromptSent(op, h, delivered) ==
    /\ fin[op][h].pc = "prompt"
    /\ fin' = [fin EXCEPT ![op][h] = NoFinalize]
    /\ fsm' = IF delivered THEN [fsm EXCEPT ![op] = "sq:selecting_question_type"] ELSE fsm
    /\ UNCHANGED <<studentRows, tgUserId, links, bag, openKb, studentKb, rec, last, prevSet,
                   surveyVars, questionRows>>
    /\ UNCHANGED courseRows

\* The rows of a sequence, as a set
RowSet(rows) == {rows[i] : i \in 1..Len(rows)}

\* Another save has deleted, and not yet committed, a row this one saw.
Blocked(op, h) ==
    \E o \in Operators, k \in 1..MaxInFlight :
        /\ <<o, k>> # <<op, h>>
        /\ fin[o][k].pc = "commit"
        /\ fin[o][k].survey = fin[op][h].survey
        /\ fin[o][k].seen \cap fin[op][h].seen # {}

\* DELETE FROM question WHERE survey_id = ...: the statement sees the rows
\* committed when it starts; it waits for a transaction that has deleted
\* one of them.
Fin_Delete(op, h) ==
    /\ fin[op][h].pc = "delete"
    /\ LET seen == RowSet(questionRows[fin[op][h].survey])
           busy == \E o \in Operators, k \in 1..MaxInFlight :
                      /\ <<o, k>> # <<op, h>>
                      /\ fin[o][k].pc = "commit"
                      /\ fin[o][k].survey = fin[op][h].survey
                      /\ fin[o][k].seen \cap seen # {}
       IN  fin' = [fin EXCEPT ![op][h].seen = seen,
                              ![op][h].pc = IF busy THEN "wait" ELSE "commit"]
    /\ UNCHANGED <<studentRows, tgUserId, links, fsm, bag, openKb, studentKb, rec, last,
                   prevSet, surveyVars, questionRows>>
    /\ UNCHANGED courseRows

\* Orders that start at 0.
NewRowsFromZero(tx, list) ==
    [i \in 1..Len(list) |-> [order |-> i - 1, q_type |-> list[i], tx |-> tx]]

\* Question(survey_id, text, q_type, order=i + 1) for the i-th entry
NewRows(tx, list) ==
    [i \in 1..Len(list) |-> [order |-> i, q_type |-> list[i], tx |-> tx]]

\* The rows a save inserts are new rows: none that is stored for the
\* survey, none that a statement at work has seen.
TxIds == 0..(1 + Cardinality(Operators) * MaxInFlight)
UsedTx(sv) ==
    {r.tx : r \in UNION ({RowSet(questionRows[sv])}
                         \cup {fin[o][k].seen : o \in Operators, k \in 1..MaxInFlight})}
FreshTx(sv) == CHOOSE n \in TxIds \ UsedTx(sv) : \A m \in TxIds \ UsedTx(sv) : n <= m

\* session.rollback(): the rows are those committed before
RolledBack(rows, seen) == rows

\* Response rows that go with the Question rows of their survey.
Cascaded(rs, sv) == SelectSeq(rs, LAMBDA r : r.survey_id # sv)

\* Response.survey_id is a plain column and Response has no column for the
\* Question: a DELETE of Question rows reaches no Response row.
NotCascaded(rs, sv) == rs

\* The inserts and the commit, or an exception in the block and the
\* rollback; the message to the operator follows.  A statement that waits
\* goes on when the transaction it waits for has ended.
Fin_Commit(op, h, ok) ==
    /\ \/ fin[op][h].pc = "commit"
       \/ fin[op][h].pc = "wait" /\ ~Blocked(op, h)
    /\ LET f == fin[op][h] IN
         IF ok
         THEN /\ questionRows' = [questionRows EXCEPT ![f.survey] =
                     SelectSeq(@, LAMBDA r : r \notin f.seen) \o NewRows(FreshTx(f.survey), f.list)]
              /\ last' = [last EXCEPT ![op] = [kind |-> "saved", n |-> Len(f.list)]]
         ELSE /\ questionRows' = [questionRows EXCEPT ![f.survey] = RolledBack(@, f.seen)]
              /\ last' = [last EXCEPT ![op] = [kind |-> "save_error"]]
    /\ fin' = [fin EXCEPT ![op][h].pc = "clear"]
    /\ responses' = NotCascaded(responses, fin[op][h].survey)
    /\ UNCHANGED <<studentRows, tgUserId, links, fsm, bag, openKb, studentKb, rec, prevSet,
                   hnd, bc, sent, sess, completed, cancelled>>
    /\ UNCHANGED courseRows

\* state.clear() at the end of save_questions_and_finish
Fin_Clear(op, h) ==
    /\ fin[op][h].pc = "clear"
    /\ fin' = [fin EXCEPT ![op][h] = NoFinalize]
    /\ fsm' = ClearState(fsm, op)
    /\ bag' = ClearBag(bag, op)
    /\ UNCHANGED <<studentRows, tgUserId, links, openKb, studentKb, rec, last, prevSet,
                   surveyVars, questionRows>>
    /\ UNCHANGED courseRows

\* No handler of the /set_questions flow is at work.
AuthorQuiet == \A op \in Operators, h \in 1..MaxInFlight : fin[op][h].pc = "idle"

\* An update of the operator for the /set_questions flow
AuthorEvent(op) ==
    \/ set_questions_start(op)
    \/ \E c \in Courses : set_questions_course_selected(op, c)
    \/ \E g \in Groups : set_questions_group_selected(op, g)
    \/ \E sv \in Surveys : set_questions_survey_selected(op, sv)
    \/ \E action \in {"yes", "no"} : set_questions_overwrite_confirmed(op, action)
    \/ \E action \in {"finish"} \cup TypeChoices(Len(bag[op].questions) + 1) :
          set_questions_type_selected(op, action)
    \/ set_questions_text_entered(op)

\* A handler of the flow goes on after an awaited call.
AuthorStep(op) ==
    \/ \E h \in 1..MaxInFlight, delivered \in BOOLEAN : PromptSent(op, h, delivered)
    \/ \E h \in 1..MaxInFlight : Fin_Delete(op, h)
    \/ \E h \in 1..MaxInFlight, ok \in BOOLEAN : Fin_Commit(op, h, ok)
    \/ \E h \in 1..MaxInFlight : Fin_Clear(op, h)

\* One operator, one update at a time: the next update comes when the
\* handler of the one before has returned.
NextAuthor ==
    \/ AuthorQuiet /\ AuthorEvent("op1")
    \/ AuthorStep("op1")

SpecAuthor == InitEnroll /\ [][NextAuthor]_vars

\* C21: while the operator is at the type keyboard with no question
\* accumulated, no step changes a Question row, and pressing "finish" there
\* tells the operator that nothing was added and clears the state and the
\* data of the flow.
ZeroFinalize ==
    [][\A op \in Operators :
          (fsm[op] = "sq:selecting_question_type" /\ bag[op].questions = <<>>) =>
             /\ questionRows' = questionRows
             /\ set_questions_type_selected(op, "finish") =>
                   /\ last'[op].kind = "nothing_added"
                   /\ fsm'[op] = None
                   /\ bag'[op] = EmptyBag]_vars

\* The overwrite of the delivered survey was confirmed and the flow was
\* finished with no question: its rows are those of before.
ZeroFinalizeOnExisting ==
    /\ last["op1"].kind = "nothing_added"
    /\ last["op1"].survey = SurveyId
    /\ fsm["op1"] = None
    /\ questionRows[SurveyId] = InitialQuestions[SurveyId]
    /\ questionRows[SurveyId] # <<>>

\* C22: the step of a save that commits leaves, as the Question rows of its
\* survey, exactly the accumulated list, entry i with order i, and no row
\* of before; the step of a save that fails leaves the rows of the survey
\* as they were; either leaves the rows of every other survey unchanged.
FinalizeReplaces ==
    [][\A op \in Operators, h \in 1..MaxInFlight :
          (fin[op][h].pc = "commit" /\ fin'[op][h].pc = "clear") =>
             LET sv == fin[op][h].survey
                 list == bag[op].questions
                 rows == questionRows'[sv]
             IN  /\ last'[op].kind \in {"saved", "save_error"}
                 /\ last'[op].kind = "saved" =>
                       /\ Len(rows) = Len(list)
                       /\ Len(list) >= 1
                       /\ \A i \in 1..Len(rows) :
                             /\ rows[i].order = i
                             /\ rows[i].q_type = list[i]
                             /\ rows[i] \notin RowSet(questionRows[sv])
                 /\ last'[op].kind = "save_error" => rows = questionRows[sv]
                 /\ \A o \in Surveys \ {sv} : questionRows'[o] = questionRows[o]]_vars

\* The questions of the delivered survey were replaced by a longer list,
\* and those of the other survey by a list of their own.
BothSurveysReplaced ==
    /\ last["op1"].kind = "saved"
    /\ Len(questionRows[SurveyId]) = NQuestions + 1
    /\ questionRows[SurveyId][1].tx # 0
    /\ Len(questionRows[EmptySurveyId]) = 1

\* Two operators author questions at the same time, each
\* with one update at a time and lists of at most MaxAuthored questions,
\* until the flow has reported to them; the handlers of one go on between
\* the storage calls of the other.
MaxAuthored == 1
OperatorQuiet(op) == \A h \in 1..MaxInFlight : fin[op][h].pc = "idle"

\* The buttons and texts of an operator in the flow, with lists of at most
\* maxlen questions
AuthorInput(op, maxlen) ==
    \/ set_questions_course_selected(op, CourseOf(SurveyGroup))
    \/ set_questions_group_selected(op, SurveyGroup)
    \/ \E sv \in Surveys : set_questions_survey_selected(op, sv)
    \/ \E action \in {"yes", "no"} : set_questions_overwrite_confirmed(op, action)
    \/ \E action \in {"finish"} \cup
                     (IF Len(bag[op].questions) < maxlen
                      THEN TypeChoices(Len(bag[op].questions) + 1) ELSE {}) :
          set_questions_type_selected(op, action)
    \/ set_questions_text_entered(op)

\* The updates of an operator who goes through the flow until it has
\* reported
AuthorEventOnce(op, maxlen) ==
    \/ last[op] = NoReport /\ set_questions_start(op)
    \/ AuthorInput(op, maxlen)

NextAuthorConc ==
    \E op \in Operators :
        \/ OperatorQuiet(op) /\ AuthorEventOnce(op, MaxAuthored)
        \/ AuthorStep(op)

SpecAuthorConc == InitEnroll /\ [][NextAuthorConc]_vars

\* C23: in every state the order values of the Question rows of a survey
\* are pairwise distinct and are exactly 1..n for its n rows.
OrdersAreOneToN ==
    \A sv \in Surveys :
        LET rows == questionRows[sv] IN
          /\ \A i, j \in 1..Len(rows) : rows[i].order = rows[j].order => i = j
          /\ {rows[i].order : i \in 1..Len(rows)} = 1..Len(rows)

\* One operator whose updates are handled as they come: a handler starts
\* while another one of the same operator waits for an awaited call.
NextAuthorRace ==
    \/ AuthorEventOnce("op1", MAX_QUESTIONS + 1)
    \/ AuthorStep("op1")

SpecAuthorRace == InitEnroll /\ [][NextAuthorRace]_vars

\* C24: the accumulated list of an operator never holds more than
\* MAX_QUESTIONS entries.
ListWithinMaximum ==
    \A op \in Operators : Len(bag[op].questions) <= MAX_QUESTIONS

\* ------------------------------------------------------------------------
\* The entry of a flow, step by step (the eleven commands of the curator
\* routers: group_handlers.py, recipients_handlers.py, question_handlers.py,
\* list_questions_handlers.py, list_surveys_handlers.py,
\* send_survey_handlers.py)
\* ------------------------------------------------------------------------
\* The callback prefixes of /set_group, /list_groups, /set_recipients,
\* /list_recipients, /add_recipient, /delete_recipient, /set_questions,
\* /list_questions, /create_survey, /list_surveys, /send_now
Commands == {"sg", "lg", "sr", "lr", "ar", "dr", "sq", "lq", "cs", "ls", "ss"}

\* An entry that finds no flow to cancel.
NothingToCancel(op) == FALSE

\* current_state is not None
FlowActive(op) == fsm[op] # None

\* The command arrives: a flow that is active is cancelled, state and data,
\* and the operator is told; the course keyboard is then built and sent.
flow_start(op, flow) ==
    /\ FreeAuthorSlots(op) # {}
    /\ fin' = [fin EXCEPT ![op][AuthorSlot(op)] =
                 [NoFinalize EXCEPT !.pc = "entry", !.flow = flow, !.was = fsm[op]]]
    /\ IF FlowActive(op)
       THEN /\ fsm' = ClearState(fsm, op)
            /\ bag' = ClearBag(bag, op)
            /\ last' = [last EXCEPT ![op] = [kind |-> "cancelled"]]
       ELSE /\ last' = [last EXCEPT ![op] = NoReport]
            /\ UNCHANGED <<fsm, bag>>
    /\ UNCHANGED <<studentRows, tgUserId, links, openKb, studentKb, rec, prevSet,
                   surveyVars, questionRows>>
    /\ UNCHANGED courseRows

\* The keyboard is sent: set_state(selecting_course) of the flow.  A send
\* that raises ends the handler before.
flow_installed(op, h, delivered) ==
    /\ fin[op][h].pc = "entry"
    /\ fin' = [fin EXCEPT ![op][h] = NoFinalize]
    /\ fsm' = IF delivered
              THEN [fsm EXCEPT ![op] = fin[op][h].flow \o ":selecting_course"]
              ELSE fsm
    /\ studentKb' = IF delivered /\ fin[op][h].flow \in EnrollFlows
                    THEN [studentKb EXCEPT ![op] = {}] ELSE studentKb
    /\ UNCHANGED <<studentRows, tgUserId, links, bag, openKb, rec, last, prevSet,
                   surveyVars, questionRows>>
    /\ UNCHANGED courseRows

\* One operator, one update at a time: any of the commands at any point of
\* the /set_questions flow.
NextEntry ==
    \/ AuthorQuiet /\ \E flow \in Commands : flow_start("op1", flow)
    \/ AuthorQuiet /\ AuthorInput("op1", MaxAuthored)
    \/ \E h \in 1..MaxInFlight, delivered \in BOOLEAN : flow_installed("op1", h, delivered)
    \/ AuthorStep("op1")

SpecEntry == InitEnroll /\ [][NextEntry]_vars

KeepCreated(rows, created) == rows \cup created

\* session.rollback(): the Student rows flushed in the session are gone
AfterRollback(rows, created) == rows

\* set_recipients_usernames_entered with an exception in its storage
\* session, at the latest at the commit: the rollback, the error message,
\* state.clear().
SetRecipientsFails(op, text) ==
    /\ rec[op].pc = "idle"
    /\ fsm[op] = "sr:entering_usernames"
    /\ InvalidInputs(text) = {}
    /\ LET r == SR_Resolved(SR_PreChecked(SR_Task(op, text))) IN
         studentRows' = AfterRollback(studentRows, r.create)
    /\ last' = [last EXCEPT ![op] = [kind |-> "error"]]
    /\ fsm' = ClearState(fsm, op)
    /\ bag' = ClearBag(bag, op)
    /\ UNCHANGED <<tgUserId, links, openKb, studentKb, rec, prevSet, surveyVars, authorVars>>

NextEnrollFail ==
    \/ EnrollStep("op1")
    \/ \E text \in SUBSET RawEntries : SetRecipientsFails("op1", text)

SpecEnrollFail == InitEnroll /\ [][NextEnrollFail]_vars

\* C26: a set_recipients message whose storage session fails leaves the
\* enrollment rows of every group and the Student rows as they were, tells
\* the operator of the failure and ends the flow.
FailureRollsBack ==
    [][\A op \in Operators :
          (fsm[op] = "sr:entering_usernames" /\ last'[op].kind = "error") =>
             /\ links' = links
             /\ studentRows' = studentRows
             /\ tgUserId' = tgUserId
             /\ fsm'[op] = None]_vars

\* A reconciliation failed in a store that holds students and enrollments.
FailedOnEnrolledGroup ==
    /\ last["op1"].kind = "error"
    /\ fsm["op1"] = None
    /\ studentRows # {}
    /\ \E g \in Groups : Enrolled(g) # {}

\* An entry that does not start with '@', or that is '@' alone
MalformedEntry(u) == u.ats = 0 \/ (u.ats = 1 /\ u.name = "")

\* The handler has told the operator of the format and changed nothing
\* else: no row, not the state, not the data.
OnlyReportedInvalid(op) ==
    /\ last'[op].kind = "invalid"
    /\ studentRows' = studentRows
    /\ tgUserId' = tgUserId
    /\ links' = links
    /\ fsm'[op] = fsm[op]
    /\ bag'[op] = bag[op]

\* C27: a set_recipients message with a malformed entry, and an
\* add_recipient message that is a malformed entry, create, change and
\* remove no Student and no enrollment row, are answered with the error and
\* leave the state and the data of the flow as they were.
MalformedChangesNothing ==
    [][\A op \in Operators :
          /\ fsm[op] = "sr:entering_usernames" =>
                \A text \in SUBSET RawEntries :
                   ((\E u \in text : MalformedEntry(u)) /\ SetRecipients(op, text))
                       => OnlyReportedInvalid(op)
          /\ fsm[op] = "ar:entering_username" =>
                \A u \in RawEntries :
                   (MalformedEntry(u) /\ AddRecipient(op, u)) => OnlyReportedInvalid(op)]_vars

\* A malformed message was answered in the set_recipients flow of a group
\* with students: the flow still awaits the usernames of that group.
MalformedKeptTheFlow ==
    /\ last["op1"].kind = "invalid"
    /\ fsm["op1"] = "sr:entering_usernames"
    /\ bag["op1"].group_id # None
    /\ Enrolled(bag["op1"].group_id) # {}

\* C28: an add_recipient for group G of a student enrolled in another group
\* of G's course reports the conflict and does not enroll the student in G.
AddConflictRefused ==
    \A op \in Operators :
        last[op].kind = "add" =>
            \A s \in last[op].input : \A g \in Groups :
                (/\ g # last[op].group
                 /\ CourseOf(g) = CourseOf(last[op].group)
                 /\ links[<<g, s>>] > 0)
                    => (last[op].outcome = "conflict" /\ s \notin Enrolled(last[op].group))

\* ------------------------------------------------------------------------
\* /delete_course (admin_flow/course_handlers.py)
\* ------------------------------------------------------------------------
delete_course_start(op) ==
    /\ fsm' = [fsm EXCEPT ![op] = "del:selecting_course"]
    /\ bag' = IF fsm[op] # None THEN ClearBag(bag, op) ELSE bag
    /\ last' = [last EXCEPT ![op] = NoReport]
    /\ UNCHANGED <<studentRows, tgUserId, links, openKb, studentKb, rec, prevSet,
                   surveyVars, authorVars>>

\* A course button: course_id_to_delete, and the confirmation keyboard.
delete_course_selected(op, c) ==
    /\ fsm[op] = "del:selecting_course"
    /\ IF c \in courseRows
       THEN /\ bag' = [bag EXCEPT ![op].course_id = c]
            /\ fsm' = [fsm EXCEPT ![op] = "del:confirming_deletion"]
       ELSE /\ fsm' = ClearState(fsm, op)
            /\ bag' = ClearBag(bag, op)
    /\ UNCHANGED <<studentRows, tgUserId, links, openKb, studentKb, rec, last, prevSet,
                   surveyVars, authorVars>>

\* Survey.group_id references group.id: the DELETE of a group with a Survey
\* row raises at the flush.
HasSurvey(c) == SurveyGroup \in GroupsOfCourse(c)

\* "Yes": the enrollment rows of the groups of the course, the groups and
\* the course are deleted in one transaction; an exception rolls it back.
delete_course_confirm_yes(op) ==
    /\ fsm[op] = "del:confirming_deletion"
    /\ LET c == bag[op].course_id IN
         IF c \notin courseRows
         THEN /\ last' = [last EXCEPT ![op] = [kind |-> "course_not_found"]]
              /\ UNCHANGED <<links, courseRows>>
         ELSE IF HasSurvey(c)
         THEN /\ last' = [last EXCEPT ![op] = [kind |-> "delete_error"]]
              /\ UNCHANGED <<links, courseRows>>
         ELSE /\ links' = [p \in DOMAIN links |->
                             IF p[1] \in GroupsOfCourse(c) THEN 0 ELSE links[p]]
              /\ courseRows' = courseRows \ {c}
              /\ last' = [last EXCEPT ![op] = [kind |-> "course_deleted"]]
    /\ fsm' = ClearState(fsm, op)
    /\ bag' = ClearBag(bag, op)
    /\ UNCHANGED <<studentRows, tgUserId, openKb, studentKb, rec, prevSet, surveyVars,
                   questionRows, fin>>

\* ------------------------------------------------------------------------
\* Answers, then other questions and no course
\* ------------------------------------------------------------------------
\* One operator broadcasts the survey and alice answers what she receives,
\* while the questions of the survey are those delivered; the other
\* operator, an administrator as well, sets the questions of that survey
\* and deletes courses at any time, with one update at a time.
NextFrame ==
    \/ /\ questionRows[SurveyId] = InitialQuestions[SurveyId]
       /\ \/ send_now_survey_selected("op1", SurveyId)
          \/ BroadcastSend(TRUE)
          \/ BroadcastSummary
          \/ AnswerReceived("alice")
          \/ \E h \in 1..MaxInFlight : AnswerSave("alice", h)
          \/ \E h \in 1..MaxInFlight : AnswerReadOrder("alice", h)
          \/ \E h \in 1..MaxInFlight : AnswerSend("alice", h, TRUE)
    \/ /\ OperatorQuiet("op2")
       /\ \/ last["op2"] = NoReport /\ set_questions_start("op2")
          \/ set_questions_course_selected("op2", CourseOf(SurveyGroup))
          \/ set_questions_group_selected("op2", SurveyGroup)
          \/ set_questions_survey_selected("op2", SurveyId)
          \/ set_questions_overwrite_confirmed("op2", "yes")
          \/ \E action \in {"finish"} \cup
                           (IF Len(bag["op2"].questions) < MaxAuthored THEN {"text"} ELSE {}) :
                set_questions_type_selected("op2", action)
          \/ set_questions_text_entered("op2")
          \/ delete_course_start("op2")
          \/ \E c \in Courses : delete_course_selected("op2", c)
          \/ delete_course_confirm_yes("op2")
    \/ AuthorStep("op2")

SpecFrame == InitHappy /\ [][NextFrame]_vars

\* C29: a step that replaces the Question rows of a survey, or that deletes
\* a course with its groups, leaves every Response row as it was stored,
\* with the question type and the names it captured.
ResponsesKept ==
    [][(questionRows' # questionRows \/ courseRows' # courseRows)
          => responses' = responses]_vars

\* Answers are stored, the questions of their survey were replaced and a
\* course was deleted.
AnswersOutliveQuestions ==
    /\ Len(responses) >= 1
    /\ questionRows[SurveyId] # InitialQuestions[SurveyId]
    /\ courseRows # Courses

\* ------------------------------------------------------------------------
\* Answers with sends that fail
\* ------------------------------------------------------------------------
\* One broadcast; the students answer or skip, once, each question
\* received; a send, of the broadcast or of a handler, may raise.
NextSendFail ==
    \/ send_now_survey_selected("op1", SurveyId)
    \/ \E delivered \in BOOLEAN : BroadcastSend(delivered)
    \/ BroadcastSummary
    \/ \E s \in Handles :
          \/ AnswerReceived(s)
          \/ \E h \in 1..MaxInFlight : AnswerSave(s, h)
          \/ \E h \in 1..MaxInFlight : AnswerReadOrder(s, h)
          \/ \E h \in 1..MaxInFlight, delivered \in BOOLEAN : AnswerSend(s, h, delivered)

SpecSendFail == InitHappy /\ [][NextSendFail]_vars

\* C30: when the send that follows the stored answer to question N raises
\* (the handler ends, nothing was sent and the session is not completed),
\* the Response is stored and the student is as before the event: in
\* Answering, with N as the current question and as the order.
FailedSendKeepsState ==
    [][\A s \in Handles, h \in 1..MaxInFlight :
          (/\ hnd[s][h].pc = "send"
           /\ hnd'[s][h].pc = "none"
           /\ sent' = sent
           /\ completed' = completed) =>
             /\ fsm'[s] = "answering"
             /\ bag'[s].current_question_id = hnd[s][h].q
             /\ bag'[s].question_order = hnd[s][h].q
             /\ bag'[s].survey_id = SurveyId
             /\ responses' = responses
             /\ \E i \in 1..Len(responses) :
                   /\ responses[i].who = s
                   /\ responses[i].q = hnd[s][h].q
                   /\ responses[i].dlv = sess[s]]_vars

\* alice answered the first question and the send of the second failed:
\* she is in Answering at the first question, her answer stored, no handler
\* at work.
StuckAfterFailedSend ==
    /\ fsm["alice"] = "answering"
    /\ bag["alice"].current_question_id = 1
    /\ \A h \in 1..MaxInFlight : hnd["alice"][h].pc = "none"
    /\ AnsweredCount("alice") = 1
    /\ ReceivedCount("alice") = 1

\* ------------------------------------------------------------------------
\* A broadcast triggered by a curator who is a recipient
\* ------------------------------------------------------------------------
\* alice is a curator and a student of the group of the survey: her chat
\* is the one whose state the /send_now flow and the delivery both use
\* (in a private chat the chat id is the user id).  She or op1 triggers
\* the broadcast; every student answers what they receive.
Senders == {"op1", "alice"}

InitSelf ==
    /\ studentRows = Handles
    /\ tgUserId \in [Handles -> {NullId} \cup {TgId(s) : s \in Handles}]
    /\ \A s \in Handles : tgUserId[s] \in {NullId, TgId(s)}
    /\ links = [p \in Groups \X Handles |-> IF p[1] = SurveyGroup THEN 1 ELSE 0]
    /\ fsm = [a \in Actors |-> IF a \in Senders THEN "ss:selecting_survey" ELSE None]
    /\ bag = [a \in Actors |->
                IF a \in Senders
                THEN [EmptyBag EXCEPT !.course_id = CourseOf(SurveyGroup), !.group_id = SurveyGroup]
                ELSE EmptyBag]
    /\ openKb = [a \in Operators |-> {}]
    /\ studentKb = [a \in Operators |-> {}]
    /\ rec = [a \in Operators |-> Idle]
    /\ last = [a \in Actors |-> NoReport]
    /\ prevSet = NoPrev
    /\ InitSurveyIdle

NextSelf ==
    \/ \E op \in Senders : send_now_survey_selected(op, SurveyId)
    \/ \E delivered \in BOOLEAN : BroadcastSend(delivered)
    \/ BroadcastSummary
    \/ \E s \in Handles :
          \/ AnswerReceived(s)
          \/ \E h \in 1..MaxInFlight : AnswerSave(s, h)
          \/ \E h \in 1..MaxInFlight : AnswerReadOrder(s, h)
          \/ \E h \in 1..MaxInFlight : AnswerSend(s, h, TRUE)

SpecSelf == InitSelf /\ [][NextSelf]_vars

\* C31: when a broadcast finishes, every student it counted as delivered
\* is in Answering for the survey (at question 1 or further) or has
\* completed the session by answering.
DeliveredStayAnswering ==
    [][(bc.pc = "sending" /\ bc'.pc = "idle") =>
          \A i \in 1..Len(bc.log) :
              bc.log[i].result =>
                 \/ /\ fsm'[bc.log[i].name] = "answering"
                    /\ bag'[bc.log[i].name].survey_id = SurveyId
                    /\ bag'[bc.log[i].name].current_question_id >= 1
                 \/ <<bc.log[i].name, sess[bc.log[i].name]>> \in completed]_vars

\* ------------------------------------------------------------------------
\* A button pressed twice
\* ------------------------------------------------------------------------
\* One broadcast in which every send goes out; the answer events of a
\* student come at any time, so that the handler of a second event runs
\* between the awaited calls of the first.
NextDouble ==
    \/ send_now_survey_selected("op1", SurveyId)
    \/ BroadcastSend(TRUE)
    \/ BroadcastSummary
    \/ \E s \in Handles :
          \/ AnswerArrive(s)
          \/ \E h \in 1..MaxInFlight : AnswerSave(s, h)
          \/ \E h \in 1..MaxInFlight : AnswerReadOrder(s, h)
          \/ \E h \in 1..MaxInFlight : AnswerSend(s, h, TRUE)

SpecDouble == InitHappy /\ [][NextDouble]_vars

\* C32: whatever the interleaving of the handlers of a student's answer
\* events, no two Responses of the student are stored for the same
\* question of one delivery.
OneResponsePerQuestion ==
    \A i, j \in 1..Len(responses) :
        (/\ i < j
         /\ responses[i].who = responses[j].who
         /\ responses[i].dlv = responses[j].dlv) => responses[i].q # responses[j].q

\* C33: a round of the broadcast whose send fails leaves the state and the
\* data of the student it was for as they were, and records no delivery.
FailedDeliveryKeepsState ==
    [][(/\ bc.pc = "sending"
        /\ bc'.pc = "sending"
        /\ Len(bc'.log) = Len(bc.log) + 1
        /\ ~bc'.log[Len(bc'.log)].result
        /\ Head(bc.todo).tg_user_id # NullId) =>
          LET s == AccountOf(Head(bc.todo).tg_user_id) IN
             /\ fsm'[s] = fsm[s]
             /\ bag'[s] = bag[s]
             /\ sess'[s] = sess[s]
             /\ sent' = sent]_vars

\* The send to alice failed while she was choosing the course of the
\* feedback flow: she still is, and no survey is in her data.
FailedWhileInFeedback ==
    /\ bc.pc = "sending"
    /\ bc.log # <<>>
    /\ bc.log[Len(bc.log)] = [name |-> "alice", result |-> FALSE]
    /\ fsm["alice"] \notin {None, "answering"}
    /\ sess["alice"] = 0

\* ------------------------------------------------------------------------
\* Two students who answer, one of them after the feedback flow
\* ------------------------------------------------------------------------
\* One broadcast in which every send goes out.  Both students answer what
\* they receive; alice may have chosen the anonymity of a feedback before
\* the survey reaches her, so that her data carry the flag.
NextOwn ==
    \/ send_now_survey_selected("op1", SurveyId)
    \/ BroadcastSend(TRUE)
    \/ BroadcastSummary
    \/ feedback_begin("alice")
    \/ \E c \in FeedbackCourses : feedback_course_selected("alice", c)
    \/ \E choice \in {"anonymous", "named"} : feedback_anonymity_selected("alice", choice)
    \/ \E s \in Handles :
          \/ AnswerReceived(s)
          \/ \E h \in 1..MaxInFlight : AnswerSave(s, h)
          \/ \E h \in 1..MaxInFlight : AnswerReadOrder(s, h)
          \/ \E h \in 1..MaxInFlight : AnswerSend(s, h, TRUE)

SpecOwn == InitHappy /\ [][NextOwn]_vars

\* C34: a step of an answer handler of student s leaves the state and the
\* data of every other actor as they are, and either leaves the Responses
\* as they are or appends one row: for the question that was current at
\* the event, written by s, with the name and id of s or, when the flag
\* was set, with the sentinel name and id.
AnswerTouchesOwn ==
    [][\A s \in Handles, h \in 1..MaxInFlight :
          hnd'[s][h] # hnd[s][h] =>
             /\ \A a \in Actors \ {s} : fsm'[a] = fsm[a] /\ bag'[a] = bag[a]
             /\ \/ responses' = responses
                \/ /\ Len(responses') = Len(responses) + 1
                   /\ SubSeq(responses', 1, Len(responses)) = responses
                   /\ LET r == responses'[Len(responses')] IN
                        /\ r.who = s
                        /\ r.q = hnd[s][h].q
                        /\ r.survey_id = bag[s].survey_id
                        /\ IF hnd[s][h].anon
                           THEN r.student_tg_id = AnonId /\ r.student_tg_username = AnonName
                           ELSE r.student_tg_id = TgId(s) /\ r.student_tg_username = s]_vars

\* bob is at his first question, his answer in flight, while Responses of
\* alice are stored, an anonymous one among them.
BothAnswering ==
    /\ fsm["bob"] = "answering"
    /\ bag["bob"].current_question_id = 1
    /\ \E h \in 1..MaxInFlight : hnd["bob"][h].pc = "order"
    /\ \E i \in 1..Len(responses) : responses[i].who = "alice" /\ responses[i].anon
    /\ \E i \in 1..Len(responses) : responses[i].who = "bob"

\* ------------------------------------------------------------------------
\* The answer texts
\* ------------------------------------------------------------------------
\* One broadcast in which every send goes out; alice answers each question
\* received once: by a scale button (the keyboard of question 1 stays in
\* the chat), by the skip button, or by a text message.
AnswerReceivedAs(s, answer) ==
    /\ \A h \in 1..MaxInFlight : hnd[s][h].pc = "none"
    /\ AnsweredCount(s) < ReceivedCount(s)
    /\ AnswerTakenAs(s, answer)

NextKinds ==
    \/ send_now_survey_selected("op1", SurveyId)
    \/ BroadcastSend(TRUE)
    \/ BroadcastSummary
    \/ \E answer \in ScaleAnswers \cup {SKIPPED_ANSWER, FreeText} :
          AnswerReceivedAs("alice", answer)
    \/ \E h \in 1..MaxInFlight : AnswerSave("alice", h)
    \/ \E h \in 1..MaxInFlight : AnswerReadOrder("alice", h)
    \/ \E h \in 1..MaxInFlight : AnswerSend("alice", h, TRUE)

SpecKinds == InitHappy /\ [][NextKinds]_vars

\* C35: the answer of every Response stored for a scale question is the
\* text of a scale button or the skip marker.
ScaleAnswerStored ==
    \A i \in 1..Len(responses) :
        responses[i].question_type = "scale" =>
            responses[i].answer \in ScaleAnswers \cup {SKIPPED_ANSWER}

\* ------------------------------------------------------------------------
\* Answers while the questions are replaced
\* ------------------------------------------------------------------------
\* save_response in two steps: the SELECT of the Student and
\* session.get(Question, question_id), then session.add and the commit.
\* The transaction runs at READ COMMITTED and Response has no foreign key
\* to Question, so a commit of another transaction may come between.
AnswerSaveCheck(s, h) ==
    /\ hnd[s][h].pc = "save"
    /\ IF SaveRefused(s, hnd[s][h].anon) \/ ~QuestionStored(hnd[s][h].q)
       THEN /\ fsm' = ClearState(fsm, s)
            /\ bag' = ClearBag(bag, s)
            /\ hnd' = [hnd EXCEPT ![s][h] = NoHandler]
       ELSE /\ hnd' = [hnd EXCEPT ![s][h].pc = "commit"]
            /\ UNCHANGED <<fsm, bag>>
    /\ UNCHANGED <<studentRows, tgUserId, links, openKb, studentKb, rec, last, prevSet,
                   responses, bc, sent, sess, completed, cancelled>>
    /\ UNCHANGED authorVars

AnswerSaveCommit(s, h) ==
    /\ hnd[s][h].pc = "commit"
    /\ responses' = Append(responses, NewResponse(s, hnd[s][h]))
    /\ hnd' = [hnd EXCEPT ![s][h].pc = "order"]
    /\ UNCHANGED <<studentRows, tgUserId, links, fsm, bag, openKb, studentKb, rec, last,
                   prevSet, bc, sent, sess, completed, cancelled>>
    /\ UNCHANGED authorVars

\* One operator broadcasts the survey while its questions are those of the
\* start; alice answers what she receives, one event at a time; the other
\* operator sets the questions of the survey, one update at a time.  The
\* handlers of alice and of the operator interleave at their awaited calls.
NextReplace ==
    \/ /\ questionRows[SurveyId] = InitialQuestions[SurveyId]
       /\ send_now_survey_selected("op1", SurveyId)
    \/ BroadcastSend(TRUE)
    \/ BroadcastSummary
    \/ AnswerReceived("alice")
    \/ \E h \in 1..MaxInFlight : AnswerSaveCheck("alice", h)
    \/ \E h \in 1..MaxInFlight : AnswerSaveCommit("alice", h)
    \/ \E h \in 1..MaxInFlight : AnswerReadOrder("alice", h)
    \/ \E h \in 1..MaxInFlight : AnswerSend("alice", h, TRUE)
    \/ /\ OperatorQuiet("op2")
       /\ \/ last["op2"] = NoReport /\ set_questions_start("op2")
          \/ set_questions_course_selected("op2", CourseOf(SurveyGroup))
          \/ set_questions_group_selected("op2", SurveyGroup)
          \/ set_questions_survey_selected("op2", SurveyId)
          \/ set_questions_overwrite_confirmed("op2", "yes")
          \/ \E action \in {"finish"} \cup
                           (IF Len(bag["op2"].questions) < MaxAuthored THEN {"text"} ELSE {}) :
                set_questions_type_selected("op2", action)
          \/ set_questions_text_entered("op2")
    \/ AuthorStep("op2")

SpecReplace == InitHappy /\ [][NextReplace]_vars

\* C36: every Response was written for a question that was stored when
\* the Response was committed.
WrittenForStoredQuestion ==
    \A i \in 1..Len(responses) : responses[i].stored

\* C37: after enrollment operations run one after another, no student has
\* more than one GroupStudent row in a group.
OneRowPerPair ==
    \A p \in Groups \X Handles : links[p] <= 1

\* An /add_recipient for a student of the group was answered with "already
\* in the group", and a /set_recipients before had enrolled the student.
AddedTwiceRefused ==
    \E op \in Operators :
        /\ last[op].kind = "add"
        /\ last[op].outcome = "already"
        /\ \A s \in last[op].input : links[<<last[op].group, s>>] = 1

\* ------------------------------------------------------------------------
\* curator_guard (curator_flow/group_handlers.py)
\* ------------------------------------------------------------------------
\* The Curator rows: the operators, and alice, who is a student as well.
Curators == Operators \cup {"alice"}

\* select(Curator).where(Curator.tg_username == db_username), .first()
IsCurator(a) == a \in Curators

\* A guard that sits behind the cancellation of the handler.
CancelledFirst(f, a) == [f EXCEPT ![a] = None]

\* if not is_curator_flag: the answer "no curator rights", return; the
\* handler is not called
NotCancelled(f, a) == f

\* A command of a curator flow: the wrapper looks the sender up and calls
\* the handler, or answers with the denial (`was`: the state it found).
curator_guard(a, flow) ==
    IF IsCurator(a)
    THEN flow_start(a, flow)
    ELSE /\ last' = [last EXCEPT ![a] = [kind |-> "denied", was |-> fsm[a]]]
         /\ fsm' = NotCancelled(fsm, a)
         /\ UNCHANGED <<studentRows, tgUserId, links, bag, openKb, studentKb, rec, prevSet,
                        surveyVars, authorVars>>

\* One broadcast in which every send goes out; both students answer what
\* they receive.  bob, who is no curator, sends the commands of the curator
\* flows at any time; op1 sends /send_now.
NextGuard ==
    \/ send_now_survey_selected("op1", SurveyId)
    \/ BroadcastSend(TRUE)
    \/ BroadcastSummary
    \/ \E flow \in Commands : curator_guard("bob", flow)
    \/ curator_guard("op1", "ss")
    \/ \E h \in 1..MaxInFlight : flow_installed("op1", h, TRUE)
    \/ \E s \in Handles :
          \/ AnswerReceived(s)
          \/ \E h \in 1..MaxInFlight : AnswerSave(s, h)
          \/ \E h \in 1..MaxInFlight : AnswerReadOrder(s, h)
          \/ \E h \in 1..MaxInFlight : AnswerSend(s, h, TRUE)

SpecGuard == InitHappy /\ [][NextGuard]_vars

StaleFlows == {"sr", "dr"}

\* The list "@alice".
StaleTexts == {{[ats |-> 1, name |-> "alice"]}}

NextStale ==
    \/ \E flow \in StaleFlows : FlowStartShown("op1", flow)
    \/ \E flow \in StaleFlows, c \in Courses : CourseSelected("op1", flow, c)
    \/ \E flow \in StaleFlows, g \in Groups : GroupSelected("op1", flow, g)
    \/ \E g \in Groups : DeleteGroupSelectedShown("op1", g)
    \/ \E g \in Groups, s \in Handles : DeleteStudentSelected("op1", g, s)
    \/ \E text \in StaleTexts : SetRecipients("op1", text)

SpecStale == InitEnroll /\ [][NextStale]_vars

\* C39: an enrollment operation changes GroupStudent rows of no group but
\* the one its flow is applied to, the group of the operator's data.
OnlyRowsOfTheGroup ==
    [][\A p \in Groups \X Handles :
          links'[p] # links[p] => p[1] = bag["op1"].group_id]_vars

====
